---- MODULE Spec2Model ----
(***************************************************************************)
(* Subscription discovery engine (server/services).                        *)
(*                                                                         *)
(* Representation.  A Python str is a sequence of one-character strings,   *)
(* so that lower(), strip(), title(), len() and the `in` substring test    *)
(* are computed.  Money is an integer number of cents; a confidence score  *)
(* is an integer number of thousandths (0.9 is 900).  A datetime is a      *)
(* record [day, tz]: tz is "naive" (datetime.strptime), "aware"            *)
(* (email.utils.parsedate_to_datetime of a Date header with a zone) or     *)
(* "none" (Python None).  Optional str / dict values that are only copied  *)
(* are atomic strings, "None" standing for Python None.                    *)
(***************************************************************************)
EXTENDS Integers, Sequences, FiniteSets, TLC

VARIABLES
  bank_subs,        \* Merge argument: candidates of the bank adapter
  email_subs,       \* Merge argument: candidates of the email adapter
  merged,           \* the list a merge returned
  merge_raised,     \* TRUE when the merge ended in an exception
  merge_hit,        \* _merge_subscription_sources: per email candidate, the index i it was merged into (0: appended)
  remerged,         \* the list returned by merging `merged` with []
  merge_pc,         \* "idle" | "input" | "sources" | "detected" | "sources2" | "detected2"
  transactions,     \* _analyze_recurring_transactions argument
  recurring,        \* the list _analyze_recurring_transactions returned
  tx_subs,          \* _create_subscription_from_transaction of every entry of `recurring`
  stream,           \* _create_subscription_from_plaid_stream argument
  stream_sub,       \* the candidate built from `stream` (a sequence of 0 or 1 subscriptions)
  bank_pc,          \* "idle" | "input" | "analyzed" | "analysis_raised" | "created" | "stream_in" | "stream_out"
  dup_sub1,         \* _are_subscriptions_duplicate: first argument
  dup_sub2,         \* _are_subscriptions_duplicate: second argument
  are_duplicate,    \* what the calls on (dup_sub1, dup_sub2) and then on (dup_sub2, dup_sub1) returned
  dup_pc,           \* "idle" | "input" | "forward" | "backward"
  pattern_txs,      \* _detect_recurring_pattern argument: a date-sorted transactions_list
  pattern_out,      \* what _detect_recurring_pattern returned (a sequence of 0 or 1 dicts)
  pattern_pc,       \* "idle" | "input" | "detected"
  classify_name,    \* _classify_merchant argument
  classify_out,     \* the tuple _classify_merchant returned
  classify_pc,      \* "idle" | "input" | "classified"
  report_subs,      \* the subscriptions given to analytics and recommendations
  report_now,       \* datetime.now() of the run, a day number
  report_analysis,  \* what _analyze_subscription_patterns returned (a sequence of 0 or 1 dicts)
  report_recs,      \* the list _generate_recommendations returned
  report_pc,        \* "idle" | "input" | "analyzed" | "analysis_raised" | "recommended" | "recommend_raised"
  extract_msg,      \* _analyze_email_for_subscription: the message fetched for message_id
  extract_info,     \* what _extract_subscription_info_from_email returned (0 or 1 dicts)
  extract_sub,      \* what _analyze_email_for_subscription returned (0 or 1 subscriptions)
  extract_pc,       \* "idle" | "input" | "analyzed"
  plaid_client,     \* discover_subscriptions_from_bank: TRUE when self.plaid_client is set
  token_plan,       \* what the Plaid collaborator answers for each access token, in list order
  token_idx,        \* number of access tokens the loop has gone through
  token_detected,   \* detected_subscriptions of discover_subscriptions_from_bank
  token_pc,         \* "idle" | "loop" | "returned" | "raised"
  run_plan,         \* discover_all_subscriptions: the Plaid answers for bank_access_tokens (<<>>: no tokens given)
  run_mailbox,      \* the Gmail collaborator behind gmail_credentials (<<>>: no credentials given)
  run_now,          \* datetime.now() of the run, a day number
  run_bank,         \* bank adapter call: "idle" | "pending" | "skipped" | "running" | "done" | "failed"
  run_email,        \* email adapter call: "idle" | "pending" | "skipped" | "running" | "done"
  run_bank_subs,    \* bank_subscriptions
  run_email_subs,   \* email_subscriptions
  run_merged,       \* merged_subscriptions
  run_analysis,     \* analysis (a sequence of 0 or 1 dicts)
  run_recs,         \* recommendations
  run_pc,           \* "idle" | "bank" | "bank_await" | "email" | "email_await" | "merge" | "analyze" | "recommend" | "returned" | "raised"
  cancel_status,        \* CancellationRequest.status ("none": no request under study)
  cancel_retry_count,   \* CancellationRequest.retry_count
  cancel_method_used,   \* CancellationRequest.method_used
  cancel_request_type,  \* CancellationRequest.request_type
  cancel_subscription,  \* the Subscription row of the request: "missing" | "cancellable" | "not_cancellable"
  cancel_subscription_status, \* Subscription.status
  cancel_op,            \* the last route called: "none" | "retry" | "complete" | "simulate"
  cancel_response,      \* its HTTP status code (0: none yet)
  cancel_before         \* [status, retry_count] of the request when that route was called

mergeVars == <<bank_subs, email_subs, merged, merge_raised, merge_hit, remerged, merge_pc>>
bankVars == <<transactions, recurring, tx_subs, stream, stream_sub, bank_pc>>
dupVars == <<dup_sub1, dup_sub2, are_duplicate, dup_pc>>
patternVars == <<pattern_txs, pattern_out, pattern_pc>>
classifyVars == <<classify_name, classify_out, classify_pc>>
reportVars == <<report_subs, report_now, report_analysis, report_recs, report_pc>>
runVars == <<run_plan, run_mailbox, run_now, run_bank, run_email, run_bank_subs, run_email_subs, run_merged, run_analysis, run_recs, run_pc>>
tokenVars == <<plaid_client, token_plan, token_idx, token_detected, token_pc>>
extractVars == <<extract_msg, extract_info, extract_sub, extract_pc>>
cancelVars == <<cancel_status, cancel_retry_count, cancel_method_used, cancel_request_type, cancel_subscription, cancel_subscription_status, cancel_op, cancel_response, cancel_before>>
vars == <<mergeVars, bankVars, dupVars, patternVars, classifyVars, reportVars, extractVars, tokenVars, runVars, cancelVars>>

\* per component, the variables of the other components
notMergeVars == <<bankVars, dupVars, patternVars, classifyVars, reportVars, extractVars, tokenVars, runVars, cancelVars>>
notBankVars == <<mergeVars, dupVars, patternVars, classifyVars, reportVars, extractVars, tokenVars, runVars, cancelVars>>
notDupVars == <<mergeVars, bankVars, patternVars, classifyVars, reportVars, extractVars, tokenVars, runVars, cancelVars>>
notPatternVars == <<mergeVars, bankVars, dupVars, classifyVars, reportVars, extractVars, tokenVars, runVars, cancelVars>>
notClassifyVars == <<mergeVars, bankVars, dupVars, patternVars, reportVars, extractVars, tokenVars, runVars, cancelVars>>
notReportVars == <<mergeVars, bankVars, dupVars, patternVars, classifyVars, extractVars, tokenVars, runVars, cancelVars>>
notExtractVars == <<mergeVars, bankVars, dupVars, patternVars, classifyVars, reportVars, tokenVars, runVars, cancelVars>>
notTokenVars == <<mergeVars, bankVars, dupVars, patternVars, classifyVars, reportVars, extractVars, runVars, cancelVars>>
notRunVars == <<mergeVars, bankVars, dupVars, patternVars, classifyVars, reportVars, extractVars, tokenVars, cancelVars>>
notCancelVars == <<mergeVars, bankVars, dupVars, patternVars, classifyVars, reportVars, extractVars, tokenVars, runVars>>

(***************************************************************************)
(* Bounds of the model.                                                    *)
(***************************************************************************)
MaxBank == 2
MaxEmail == 2
MaxTx == 4
MaxGroup == 4
MaxSubs == 4
MaxTokens == 3

(***************************************************************************)
(* Strings.                                                                *)
(***************************************************************************)
None == "None"

UpperLetters == <<"A","B","C","D","E","F","G","H","I","J","K","L","M","N","O","P","Q","R","S","T","U","V","W","X","Y","Z">>
LowerLetters == <<"a","b","c","d","e","f","g","h","i","j","k","l","m","n","o","p","q","r","s","t","u","v","w","x","y","z">>

IsUpper(c) == \E i \in 1..Len(UpperLetters) : UpperLetters[i] = c
IsLower(c) == \E i \in 1..Len(LowerLetters) : LowerLetters[i] = c

\* the case mappings, tabulated once
LowerMap ==
  << >> @@ [c \in {UpperLetters[i] : i \in 1..Len(UpperLetters)} |->
              LowerLetters[CHOOSE i \in 1..Len(UpperLetters) : UpperLetters[i] = c]]
UpperMap ==
  << >> @@ [c \in {LowerLetters[i] : i \in 1..Len(LowerLetters)} |->
              UpperLetters[CHOOSE i \in 1..Len(LowerLetters) : LowerLetters[i] = c]]

LowerChar(c) == IF c \in DOMAIN LowerMap THEN LowerMap[c] ELSE c

UpperChar(c) == IF c \in DOMAIN UpperMap THEN UpperMap[c] ELSE c

\* str.lower()
Lower(s) == [i \in 1..Len(s) |-> LowerChar(s[i])]

\* str.strip(): leading and trailing whitespace removed
Strip(s) ==
  LET keep == {i \in 1..Len(s) : s[i] # " "}
  IN IF keep = {} THEN <<>>
     ELSE LET lo == CHOOSE i \in keep : \A j \in keep : i <= j
              hi == CHOOSE i \in keep : \A j \in keep : i >= j
          IN SubSeq(s, lo, hi)

\* str.title(): a cased character is upper-cased after an uncased one (or at
\* the start) and lower-cased after a cased one
Title(s) ==
  [i \in 1..Len(s) |->
     IF i > 1 /\ (IsUpper(s[i-1]) \/ IsLower(s[i-1]))
     THEN LowerChar(s[i]) ELSE UpperChar(s[i])]

\* the Python test `sub in s`
Contains(sub, s) ==
  \E i \in 0..(Len(s) - Len(sub)) : SubSeq(s, i + 1, i + Len(sub)) = sub

Min(S) == CHOOSE x \in S : \A y \in S : x <= y
Max(S) == CHOOSE x \in S : \A y \in S : x >= y
Abs(n) == IF n < 0 THEN -n ELSE n

\* All sequences over S of length 0..n
SeqsUpTo(S, n) == UNION {[1..k -> S] : k \in 0..n}

(***************************************************************************)
(* datetime values.                                                        *)
(***************************************************************************)
NoDate == [day |-> 0, tz |-> "none"]
Naive(d) == [day |-> d, tz |-> "naive"]
Aware(d) == [day |-> d, tz |-> "aware"]
\* datetime.min.replace(tzinfo=None)
datetime_min == [day |-> 0, tz |-> "naive"]

\* `d or datetime.min.replace(tzinfo=None)`
OrMin(d) == IF d = NoDate THEN datetime_min ELSE d

(***************************************************************************)
(* The static tables of the service.                                       *)
(***************************************************************************)
subscription_patterns ==
  <<[key |-> "streaming", category |-> "entertainment",
      patterns |-> <<<<"n","e","t","f","l","i","x">>, <<"s","p","o","t","i","f","y">>, <<"a","p","p","l","e"," ","m","u","s","i","c">>, <<"a","m","a","z","o","n"," ","p","r","i","m","e">>, <<"h","u","l","u">>, <<"d","i","s","n","e","y">>, <<"h","b","o">>, <<"p","a","r","a","m","o","u","n","t">>, <<"p","e","a","c","o","c","k">>>>],
     [key |-> "productivity", category |-> "productivity",
      patterns |-> <<<<"m","i","c","r","o","s","o","f","t"," ","3","6","5">>, <<"o","f","f","i","c","e"," ","3","6","5">>, <<"a","d","o","b","e">>, <<"d","r","o","p","b","o","x">>, <<"g","o","o","g","l","e"," ","w","o","r","k","s","p","a","c","e">>, <<"s","l","a","c","k">>, <<"z","o","o","m">>, <<"n","o","t","i","o","n">>>>],
     [key |-> "cloud_storage", category |-> "cloud_storage",
      patterns |-> <<<<"i","c","l","o","u","d">>, <<"g","o","o","g","l","e"," ","d","r","i","v","e">>, <<"o","n","e","d","r","i","v","e">>, <<"d","r","o","p","b","o","x">>, <<"b","o","x",".","c","o","m">>, <<"m","e","g","a">>>>],
     [key |-> "fitness", category |-> "fitness",
      patterns |-> <<<<"p","e","l","o","t","o","n">>, <<"f","i","t","b","i","t">>, <<"m","y","f","i","t","n","e","s","s","p","a","l">>, <<"s","t","r","a","v","a">>, <<"n","i","k","e"," ","t","r","a","i","n","i","n","g">>, <<"a","p","p","l","e"," ","f","i","t","n","e","s","s">>>>],
     [key |-> "news", category |-> "news",
      patterns |-> <<<<"n","e","w"," ","y","o","r","k"," ","t","i","m","e","s">>, <<"w","a","s","h","i","n","g","t","o","n"," ","p","o","s","t">>, <<"w","a","l","l"," ","s","t","r","e","e","t"," ","j","o","u","r","n","a","l">>, <<"t","h","e"," ","e","c","o","n","o","m","i","s","t">>, <<"m","e","d","i","u","m">>, <<"s","u","b","s","t","a","c","k">>>>]>>

subscription_indicators ==
  <<<<"s","u","b","s","c","r","i","p","t","i","o","n">>, <<"m","o","n","t","h","l","y">>, <<"p","r","e","m","i","u","m">>, <<"p","r","o">>, <<"p","l","u","s">>>>

service_names ==
  <<[key |-> <<"n","e","t","f","l","i","x">>, name |-> "Netflix"],
     [key |-> <<"s","p","o","t","i","f","y">>, name |-> "Spotify"],
     [key |-> <<"a","d","o","b","e">>, name |-> "Adobe Creative Cloud"],
     [key |-> <<"m","i","c","r","o","s","o","f","t">>, name |-> "Microsoft 365"],
     [key |-> <<"a","p","p","l","e">>, name |-> "Apple Services"],
     [key |-> <<"g","o","o","g","l","e">>, name |-> "Google Workspace"],
     [key |-> <<"a","m","a","z","o","n">>, name |-> "Amazon Prime"]>>

cancellation_info_table ==
  <<[key |-> <<"n","e","t","f","l","i","x">>, info |-> "web:netflix"],
     [key |-> <<"s","p","o","t","i","f","y">>, info |-> "web:spotify"],
     [key |-> <<"a","d","o","b","e">>, info |-> "web:adobe"]>>

variations ==
  <<[base_name |-> <<"n","e","t","f","l","i","x">>,
      variants |-> <<<<"n","e","t","f","l","i","x",".","c","o","m">>, <<"n","e","t","f","l","i","x"," ","i","n","c">>>>],
     [base_name |-> <<"s","p","o","t","i","f","y">>,
      variants |-> <<<<"s","p","o","t","i","f","y",".","c","o","m">>, <<"s","p","o","t","i","f","y"," ","a","b">>>>],
     [base_name |-> <<"a","m","a","z","o","n">>,
      variants |-> <<<<"a","m","a","z","o","n",".","c","o","m">>, <<"a","m","z","n">>, <<"a","m","a","z","o","n"," ","p","r","i","m","e">>>>],
     [base_name |-> <<"a","p","p","l","e">>,
      variants |-> <<<<"a","p","p","l","e",".","c","o","m">>, <<"i","t","u","n","e","s">>, <<"a","p","p"," ","s","t","o","r","e">>>>],
     [base_name |-> <<"g","o","o","g","l","e">>,
      variants |-> <<<<"g","o","o","g","l","e",".","c","o","m">>, <<"y","o","u","t","u","b","e">>, <<"g","o","o","g","l","e"," ","p","l","a","y">>>>],
     [base_name |-> <<"m","i","c","r","o","s","o","f","t">>,
      variants |-> <<<<"m","i","c","r","o","s","o","f","t",".","c","o","m">>, <<"m","s","f","t">>, <<"o","f","f","i","c","e"," ","3","6","5">>>>]>>

(***************************************************************************)
(* Merchant classifier and the per-merchant lookups.                       *)
(***************************************************************************)
\* re.search(pattern, merchant_lower) for some pattern of the rule; every
\* pattern of the table is a literal (r'disney\+?' matches exactly when
\* 'disney' occurs, r'box\.com' is the literal 'box.com')
RuleMatches(rule, merchant_lower) ==
  \E p \in 1..Len(rule.patterns) : Contains(rule.patterns[p], merchant_lower)

\* a classifier in which the last matching table entry wins and an
\* indicator token outranks the table
_classify_merchant_lastmatch(merchant_name) ==
  LET merchant_lower == Lower(merchant_name)
      hits == {k \in 1..Len(subscription_patterns) :
                 RuleMatches(subscription_patterns[k], merchant_lower)}
  IN IF \E k \in 1..Len(subscription_indicators) :
          Contains(subscription_indicators[k], merchant_lower)
     THEN <<"unknown", 600>>
     ELSE IF hits # {} THEN <<subscription_patterns[Max(hits)].key, 900>>
          ELSE <<"unknown", 300>>

\* returns <<category, confidence>>; the category returned is the key of
\* the matching table entry
_classify_merchant(merchant_name) ==
  LET merchant_lower == Lower(merchant_name)
      hits == {k \in 1..Len(subscription_patterns) :
                 RuleMatches(subscription_patterns[k], merchant_lower)}
  IN IF hits # {} THEN <<subscription_patterns[Min(hits)].key, 900>>
     ELSE IF \E k \in 1..Len(subscription_indicators) :
               Contains(subscription_indicators[k], merchant_lower)
          THEN <<"unknown", 600>>
          ELSE <<"unknown", 300>>

_get_service_name(merchant_name) ==
  LET merchant_lower == Lower(merchant_name)
      hits == {k \in 1..Len(service_names) : Contains(service_names[k].key, merchant_lower)}
  IN IF hits # {} THEN service_names[Min(hits)].name ELSE None

_get_cancellation_info(merchant_name) ==
  LET merchant_lower == Lower(merchant_name)
      hits == {k \in 1..Len(cancellation_info_table) :
                 Contains(cancellation_info_table[k].key, merchant_lower)}
  IN IF hits # {} THEN cancellation_info_table[Min(hits)].info ELSE None

(***************************************************************************)
(* DetectedSubscription.                                                   *)
(***************************************************************************)
DetectedSubscription(merchant_name, service_name, amount, billing_cycle, category, confidence_score, detection_source, last_transaction_date, next_billing_date, cancellation_info, plaid_stream_id) ==
  [merchant_name |-> merchant_name, service_name |-> service_name, amount |-> amount,
   billing_cycle |-> billing_cycle, category |-> category,
   confidence_score |-> confidence_score, detection_source |-> detection_source,
   last_transaction_date |-> last_transaction_date,
   next_billing_date |-> next_billing_date, cancellation_info |-> cancellation_info,
   plaid_stream_id |-> plaid_stream_id]

\* `a or b` on Optional str / dict values
OrElse(a, b) == IF a # None THEN a ELSE b
\* `a or b` on Optional datetime values
OrElseDate(a, b) == IF a # NoDate THEN a ELSE b

(***************************************************************************)
(* Merge engine: SubscriptionDiscoveryService._merge_subscription_sources  *)
(***************************************************************************)
NameHasVariation(v, name) ==
  \/ Contains(v.base_name, name)
  \/ \E k \in 1..Len(v.variants) : Contains(v.variants[k], name)

_are_subscriptions_duplicate_oneway(sub1, sub2) ==
  LET name1 == Strip(Lower(sub1.merchant_name))
      name2 == Strip(Lower(sub2.merchant_name))
  IN \/ name1 = name2
     \/ Contains(name1, name2)
     \/ \E k \in 1..Len(variations) :
          NameHasVariation(variations[k], name1) /\ NameHasVariation(variations[k], name2)
     \/ /\ sub1.amount - sub2.amount <= 100
        /\ sub1.billing_cycle = sub2.billing_cycle
        /\ sub1.category = sub2.category

_are_subscriptions_duplicate(sub1, sub2) ==
  LET name1 == Strip(Lower(sub1.merchant_name))
      name2 == Strip(Lower(sub2.merchant_name))
  IN \/ name1 = name2
     \/ Contains(name1, name2) \/ Contains(name2, name1)
     \/ \E k \in 1..Len(variations) :
          NameHasVariation(variations[k], name1) /\ NameHasVariation(variations[k], name2)
     \/ /\ Abs(sub1.amount - sub2.amount) <= 100
        /\ sub1.billing_cycle = sub2.billing_cycle
        /\ sub1.category = sub2.category

\* the two operands picked by the first two assignments
MergeBankSub(sub1, sub2) == IF sub1.detection_source = "bank" THEN sub1 ELSE sub2
MergeEmailSub(sub1, sub2) == IF sub2.detection_source = "email" THEN sub2 ELSE sub1

\* max() of a naive and an aware datetime raises TypeError
MergeDuplicateRaises(sub1, sub2) ==
  OrMin(MergeBankSub(sub1, sub2).last_transaction_date).tz
    # OrMin(MergeEmailSub(sub1, sub2).last_transaction_date).tz

\* max(a, b): b only when b > a
MaxDate(a, b) == IF b.day > a.day THEN b ELSE a

_merge_duplicate_subscriptions(sub1, sub2) ==
  LET bank_sub == MergeBankSub(sub1, sub2)
      email_sub == MergeEmailSub(sub1, sub2)
      from_bank == bank_sub.detection_source = "bank"
      confidence == Max({bank_sub.confidence_score, email_sub.confidence_score})
      last_date == MaxDate(OrMin(bank_sub.last_transaction_date),
                           OrMin(email_sub.last_transaction_date))
  IN DetectedSubscription(
       IF Len(email_sub.merchant_name) > Len(bank_sub.merchant_name)
         THEN email_sub.merchant_name ELSE bank_sub.merchant_name,
       OrElse(email_sub.service_name, bank_sub.service_name),
       IF from_bank THEN bank_sub.amount ELSE email_sub.amount,
       IF from_bank THEN bank_sub.billing_cycle ELSE email_sub.billing_cycle,
       bank_sub.category,
       Min({confidence + 100, 1000}),
       "both",
       IF last_date = datetime_min THEN NoDate ELSE last_date,
       OrElseDate(bank_sub.next_billing_date, email_sub.next_billing_date),
       OrElse(bank_sub.cancellation_info, email_sub.cancellation_info),
       IF from_bank THEN bank_sub.plaid_stream_id ELSE None)

\* key=lambda x: (x.confidence_score, float(x.amount)), compared as tuples
SortKeyLess(x, y) ==
  \/ x.confidence_score < y.confidence_score
  \/ x.confidence_score = y.confidence_score /\ x.amount < y.amount

\* list.sort(key=..., reverse=True): descending and stable (entries with equal
\* keys keep their order), as an insertion of each entry after the entries
\* whose key is not smaller
RECURSIVE SortInsert(_, _)
SortInsert(sorted, x) ==
  IF sorted = <<>> THEN <<x>>
  ELSE IF SortKeyLess(Head(sorted), x) THEN <<x>> \o sorted
       ELSE <<Head(sorted)>> \o SortInsert(Tail(sorted), x)

RECURSIVE SortByConfidenceAmount(_)
SortByConfidenceAmount(list) ==
  IF list = <<>> THEN <<>>
  ELSE SortInsert(SortByConfidenceAmount(SubSeq(list, 1, Len(list) - 1)), list[Len(list)])

\* the loop over email_subs; st = [merged, raised, hit]
RECURSIVE MergeEmailLoop(_, _)
MergeEmailLoop(st, emails) ==
  IF emails = <<>> \/ st.raised THEN st
  ELSE LET email_sub == Head(emails)
           dups == {i \in 1..Len(st.merged) :
                      _are_subscriptions_duplicate(st.merged[i], email_sub)}
       IN IF dups = {}
          THEN MergeEmailLoop([st EXCEPT !.merged = Append(@, email_sub),
                                         !.hit = Append(@, 0)], Tail(emails))
          ELSE IF MergeDuplicateRaises(st.merged[Min(dups)], email_sub)
               THEN [st EXCEPT !.raised = TRUE]
               ELSE MergeEmailLoop(
                      [st EXCEPT !.merged[Min(dups)] =
                                    _merge_duplicate_subscriptions(@, email_sub),
                                 !.hit = Append(@, Min(dups))], Tail(emails))

\* a merged email candidate is appended as well
_merge_subscription_sources_mergeandappend(bank, email) ==
  LET st == MergeEmailLoop([merged |-> bank, raised |-> FALSE, hit |-> <<>>], email)
      also == [j \in {k \in 1..Len(st.hit) : st.hit[k] # 0} |-> email[j]]
      extra == SelectSeq(email, LAMBDA e : \E j \in DOMAIN also : also[j] = e)
  IN [raised |-> st.raised,
      subs |-> IF st.raised THEN <<>> ELSE SortByConfidenceAmount(st.merged \o extra),
      hit |-> st.hit]

\* the bank candidates run through the duplicate check as well
_merge_subscription_sources_dedupbank(bank, email) ==
  LET st == MergeEmailLoop([merged |-> <<>>, raised |-> FALSE, hit |-> <<>>], bank \o email)
  IN [raised |-> st.raised,
      subs |-> IF st.raised THEN <<>> ELSE SortByConfidenceAmount(st.merged),
      hit |-> st.hit]

\* the non-duplicate email candidates are not appended
RECURSIVE MergeEmailLoop_noappend(_, _)
MergeEmailLoop_noappend(st, emails) ==
  IF emails = <<>> \/ st.raised THEN st
  ELSE LET email_sub == Head(emails)
           dups == {i \in 1..Len(st.merged) :
                      _are_subscriptions_duplicate(st.merged[i], email_sub)}
       IN IF dups = {}
          THEN MergeEmailLoop_noappend([st EXCEPT !.hit = Append(@, 0)], Tail(emails))
          ELSE IF MergeDuplicateRaises(st.merged[Min(dups)], email_sub)
               THEN [st EXCEPT !.raised = TRUE]
               ELSE MergeEmailLoop_noappend(
                      [st EXCEPT !.merged[Min(dups)] =
                                    _merge_duplicate_subscriptions(@, email_sub),
                                 !.hit = Append(@, Min(dups))], Tail(emails))

_merge_subscription_sources_noappend(bank, email) ==
  LET st == MergeEmailLoop_noappend([merged |-> bank, raised |-> FALSE, hit |-> <<>>], email)
  IN [raised |-> st.raised,
      subs |-> IF st.raised THEN <<>> ELSE SortByConfidenceAmount(st.merged),
      hit |-> st.hit]

\* returns [raised, subs, hit]: subs is the returned list (empty when the
\* call raised), hit[j] the index of `merged` the j-th email candidate was
\* merged into, 0 when it was appended
_merge_subscription_sources(bank, email) ==
  LET st == MergeEmailLoop([merged |-> bank, raised |-> FALSE, hit |-> <<>>], email)
  IN [raised |-> st.raised,
      subs |-> IF st.raised THEN <<>> ELSE SortByConfidenceAmount(st.merged),
      hit |-> st.hit]

\* 'sources' of the dict discover_all_subscriptions returns
sources(bank, email, merged_subscriptions) ==
  [bank_count |-> Len(bank), email_count |-> Len(email),
   total_unique |-> Len(merged_subscriptions)]

(***************************************************************************)
(* Merge engine: SubscriptionDiscoveryService.merge_detected_subscriptions *)
(* (the merge the /discover-subscriptions route calls)                     *)
(***************************************************************************)
_merge_subscription_data(bank_sub, email_sub) ==
  DetectedSubscription(
    bank_sub.merchant_name,
    OrElse(email_sub.service_name, bank_sub.service_name),
    bank_sub.amount,
    bank_sub.billing_cycle,
    bank_sub.category,
    Min({bank_sub.confidence_score + 100, 1000}),
    "both",
    bank_sub.last_transaction_date,
    bank_sub.next_billing_date,
    OrElse(email_sub.cancellation_info, bank_sub.cancellation_info),
    None)

\* the entry appended for one bank candidate
MergeDetectedBank(bank_sub, email) ==
  LET matching == {j \in 1..Len(email) :
                     Lower(email[j].merchant_name) = Lower(bank_sub.merchant_name)}
  IN IF matching # {} THEN _merge_subscription_data(bank_sub, email[Min(matching)])
     ELSE bank_sub

merge_detected_subscriptions(bank, email) ==
  LET processed_merchants == {Lower(bank[i].merchant_name) : i \in 1..Len(bank)}
      email_only == SelectSeq(email, LAMBDA e : Lower(e.merchant_name) \notin processed_merchants)
  IN [i \in 1..Len(bank) |-> MergeDetectedBank(bank[i], email)] \o email_only

(***************************************************************************)
(* Candidates the Merge specification draws its arguments from.            *)
(***************************************************************************)
BankPool ==
  { DetectedSubscription(<<"N","e","t","f","l","i","x">>, "Netflix", 1549, "monthly",
      "streaming", 900, "bank", Naive(10), Naive(40), "web:netflix", None),
    DetectedSubscription(<<"N","e","t","f","l","i","x"," ","I","n","c">>, "Netflix", 1599,
      "monthly", "streaming", 1000, "bank", NoDate, NoDate, "web:netflix", "stream-2"),
    DetectedSubscription(<<"A","m","z","n"," ","M","k","t","p">>, None, 1499, "annual",
      "unknown", 500, "bank", Naive(5), Naive(370), None, "stream-3"),
    DetectedSubscription(<<"G","y","m">>, None, 3000, "monthly", "unknown", 500, "bank",
      Naive(7), Naive(37), None, "stream-4"),
    DetectedSubscription(<<"H","u","l","u"," ","P","l","u","s">>, None, 1799, "monthly",
      "streaming", 1000, "bank", Naive(9), Naive(39), None, "stream-5") }

EmailPool ==
  { DetectedSubscription(<<"N","e","t","f","l","i","x",".","c","o","m">>, "Netflix", 1549,
      "monthly", "streaming", 800, "email", NoDate, NoDate, "web:netflix", None),
    DetectedSubscription(<<"N","e","t","f","l","i","x">>, "Netflix", 1599, "monthly",
      "streaming", 1000, "email", Aware(12), Aware(42), "web:netflix", None),
    DetectedSubscription(<<"A","m","a","z","o","n"," ","P","r","i","m","e">>, "Amazon Prime",
      1399, "annual", "streaming", 1000, "email", Naive(20), Naive(385), None, None),
    DetectedSubscription(<<"H","u","l","u">>, None, 1599, "monthly", "streaming", 1000,
      "email", NoDate, NoDate, None, None),
    DetectedSubscription(<<"M","e","d","i","u","m">>, None, 500, "monthly", "news", 1000,
      "email", NoDate, NoDate, None, None) }

(***************************************************************************)
(* Merge specification: a merge applied to every pair of candidate lists.  *)
(***************************************************************************)
DupIdle ==
  /\ dup_sub1 = None
  /\ dup_sub2 = None
  /\ are_duplicate = <<>>
  /\ dup_pc = "idle"

BankIdle ==
  /\ transactions = <<>>
  /\ recurring = <<>>
  /\ tx_subs = <<>>
  /\ stream = <<>>
  /\ stream_sub = <<>>
  /\ bank_pc = "idle"

MergeIdle ==
  /\ bank_subs = <<>>
  /\ email_subs = <<>>
  /\ merged = <<>>
  /\ merge_raised = FALSE
  /\ merge_hit = <<>>
  /\ remerged = <<>>
  /\ merge_pc = "idle"

PatternIdle ==
  /\ pattern_txs = <<>>
  /\ pattern_out = <<>>
  /\ pattern_pc = "idle"

ClassifyIdle ==
  /\ classify_name = <<>>
  /\ classify_out = <<>>
  /\ classify_pc = "idle"

ReportIdle ==
  /\ report_subs = <<>>
  /\ report_now = 0
  /\ report_analysis = <<>>
  /\ report_recs = <<>>
  /\ report_pc = "idle"

RunIdle ==
  /\ run_plan = <<>>
  /\ run_mailbox = <<>>
  /\ run_now = 0
  /\ run_bank = "idle"
  /\ run_email = "idle"
  /\ run_bank_subs = <<>>
  /\ run_email_subs = <<>>
  /\ run_merged = <<>>
  /\ run_analysis = <<>>
  /\ run_recs = <<>>
  /\ run_pc = "idle"

TokenIdle ==
  /\ plaid_client = FALSE
  /\ token_plan = <<>>
  /\ token_idx = 0
  /\ token_detected = <<>>
  /\ token_pc = "idle"

ExtractIdle ==
  /\ extract_msg = None
  /\ extract_info = <<>>
  /\ extract_sub = <<>>
  /\ extract_pc = "idle"

CancelIdle ==
  /\ cancel_status = "none"
  /\ cancel_retry_count = 0
  /\ cancel_method_used = None
  /\ cancel_request_type = "none"
  /\ cancel_subscription = "missing"
  /\ cancel_subscription_status = "none"
  /\ cancel_op = "none"
  /\ cancel_response = 0
  /\ cancel_before = [status |-> "none", retry_count |-> 0]

\* every component but c is idle
AllIdleBut(c) ==
  /\ IF c = "merge" THEN TRUE ELSE MergeIdle
  /\ IF c = "bank" THEN TRUE ELSE BankIdle
  /\ IF c = "dup" THEN TRUE ELSE DupIdle
  /\ IF c = "pattern" THEN TRUE ELSE PatternIdle
  /\ IF c = "classify" THEN TRUE ELSE ClassifyIdle
  /\ IF c = "report" THEN TRUE ELSE ReportIdle
  /\ IF c = "extract" THEN TRUE ELSE ExtractIdle
  /\ IF c = "token" THEN TRUE ELSE TokenIdle
  /\ IF c = "run" THEN TRUE ELSE RunIdle
  /\ IF c = "cancel" THEN TRUE ELSE CancelIdle

InitMerge ==
  /\ bank_subs \in SeqsUpTo(BankPool, MaxBank)
  /\ email_subs \in SeqsUpTo(EmailPool, MaxEmail)
  /\ merged = <<>>
  /\ merge_raised = FALSE
  /\ merge_hit = <<>>
  /\ remerged = <<>>
  /\ merge_pc = "input"
  /\ AllIdleBut("merge")

\* discover_all_subscriptions: merged_subscriptions = self._merge_subscription_sources(...)
MergeSources ==
  /\ merge_pc = "input"
  /\ LET r == _merge_subscription_sources(bank_subs, email_subs)
     IN /\ merged' = r.subs
        /\ merge_raised' = r.raised
        /\ merge_hit' = r.hit
  /\ merge_pc' = "sources"
  /\ UNCHANGED <<bank_subs, email_subs, remerged, notMergeVars>>

\* discover_subscriptions (route): merged_subscriptions = merge_detected_subscriptions(...)
MergeDetected ==
  /\ merge_pc = "input"
  /\ merged' = merge_detected_subscriptions(bank_subs, email_subs)
  /\ merge_pc' = "detected"
  /\ UNCHANGED <<bank_subs, email_subs, merge_raised, merge_hit, remerged, notMergeVars>>

\* the returned list merged again with an empty email list
RemergeSources ==
  /\ merge_pc = "sources"
  /\ ~merge_raised
  /\ remerged' = _merge_subscription_sources(merged, <<>>).subs
  /\ merge_pc' = "sources2"
  /\ UNCHANGED <<bank_subs, email_subs, merged, merge_raised, merge_hit, notMergeVars>>

RemergeDetected ==
  /\ merge_pc = "detected"
  /\ remerged' = merge_detected_subscriptions(merged, <<>>)
  /\ merge_pc' = "detected2"
  /\ UNCHANGED <<bank_subs, email_subs, merged, merge_raised, merge_hit, notMergeVars>>

NextMerge == MergeSources \/ MergeDetected \/ RemergeSources \/ RemergeDetected

SpecMerge == InitMerge /\ [][NextMerge]_vars

(***************************************************************************)
(* Bank adapter: recurring pattern detector.                               *)
(* A raw transaction is [merchant_name, amount, date, transaction_id,      *)
(* account_id]: amount in signed cents, date as a day number.  Its field   *)
(* `missing` names the key the dict lacks ("none" when it has them all).   *)
(***************************************************************************)
RECURSIVE SumSeq(_)
SumSeq(s) == IF s = <<>> THEN 0 ELSE Head(s) + SumSeq(Tail(s))

SeqRange(s) == {s[i] : i \in 1..Len(s)}

\* the entry appended to merchant_transactions[merchant_name]
GroupEntry(transaction) ==
  [amount |-> Abs(transaction.amount), date |-> transaction.date,
   transaction_id |-> transaction.transaction_id, account_id |-> transaction.account_id]

\* merchant_name = transaction.get('merchant_name', '').lower()
GroupKey(transaction) == Lower(transaction.merchant_name)

\* the keys of merchant_transactions in insertion order
RECURSIVE MerchantKeys(_)
MerchantKeys(txs) ==
  IF txs = <<>> THEN <<>>
  ELSE LET rest == MerchantKeys(SubSeq(txs, 1, Len(txs) - 1))
           merchant_name == GroupKey(txs[Len(txs)])
       IN IF merchant_name = <<>> \/ merchant_name \in SeqRange(rest) THEN rest
          ELSE Append(rest, merchant_name)

\* merchant_transactions[merchant]
MerchantGroup(txs, merchant) ==
  LET mine == SelectSeq(txs, LAMBDA t : GroupKey(t) = merchant)
  IN [i \in 1..Len(mine) |-> GroupEntry(mine[i])]

\* transactions_list.sort(key=lambda x: x['date']): ascending and stable
RECURSIVE DateInsert(_, _)
DateInsert(sorted, x) ==
  IF sorted = <<>> THEN <<x>>
  ELSE IF x.date < Head(sorted).date THEN <<x>> \o sorted
       ELSE <<Head(sorted)>> \o DateInsert(Tail(sorted), x)

RECURSIVE SortByDate(_)
SortByDate(list) ==
  IF list = <<>> THEN <<>>
  ELSE DateInsert(SortByDate(SubSeq(list, 1, Len(list) - 1)), list[Len(list)])

CycleOfAverage_exclusive(sum, n) ==
  IF 25 * n < sum /\ sum < 35 * n THEN "monthly"
  ELSE IF 85 * n < sum /\ sum < 95 * n THEN "quarterly"
  ELSE IF 350 * n < sum /\ sum < 375 * n THEN "annual"
  ELSE IF 6 * n < sum /\ sum < 8 * n THEN "weekly"
  ELSE "none"

\* the billing cycle of an average interval sum/n, "none" outside the ranges
CycleOfAverage(sum, n) ==
  IF 25 * n <= sum /\ sum <= 35 * n THEN "monthly"
  ELSE IF 85 * n <= sum /\ sum <= 95 * n THEN "quarterly"
  ELSE IF 350 * n <= sum /\ sum <= 375 * n THEN "annual"
  ELSE IF 6 * n <= sum /\ sum <= 8 * n THEN "weekly"
  ELSE "none"

\* the dict returned once the amount check has passed; <<>> for None
PatternOfIntervals(txs) ==
  LET amounts == [i \in 1..Len(txs) |-> txs[i].amount]
      intervals == [i \in 1..(Len(txs) - 1) |-> txs[i + 1].date - txs[i].date]
      n == Len(intervals)
      sum == SumSeq(intervals)
      billing_cycle == CycleOfAverage(sum, n)
  IN IF billing_cycle = "none" THEN <<>>
     ELSE << [billing_cycle |-> billing_cycle,
              average_amount |-> SumSeq(amounts) \div Len(amounts),
              interval_consistency |->
                1000 - ((Max(SeqRange(intervals)) - Min(SeqRange(intervals))) * n * 1000) \div sum,
              last_transaction_date |-> Max({txs[i].date : i \in 1..Len(txs)}),
              transaction_count |-> Len(txs)] >>

_detect_recurring_pattern_noamountcheck(txs) ==
  IF Len(txs) < 2 THEN <<>> ELSE PatternOfIntervals(txs)

\* returns <<>> for None, <<pattern>> otherwise
_detect_recurring_pattern(txs) ==
  IF Len(txs) < 2 THEN <<>>
  ELSE IF 10 * Cardinality({txs[i].amount : i \in 1..Len(txs)}) > 3 * Len(txs) THEN <<>>
  ELSE PatternOfIntervals(txs)

\* the same without the confidence threshold
RecurringOfMerchant_nothreshold(txs, merchant) ==
  LET transactions_list == SortByDate(MerchantGroup(txs, merchant))
      recurring_pattern == _detect_recurring_pattern(transactions_list)
      classified == _classify_merchant(merchant)
  IN IF Len(transactions_list) < 2 \/ recurring_pattern = <<>>
     THEN <<>>
     ELSE << [merchant_name |-> merchant, pattern |-> recurring_pattern[1],
              category |-> classified[1], confidence |-> classified[2],
              transactions |-> transactions_list] >>

\* the entries appended to recurring_transactions for one merchant
RecurringOfMerchant(txs, merchant) ==
  LET transactions_list == SortByDate(MerchantGroup(txs, merchant))
      recurring_pattern == _detect_recurring_pattern(transactions_list)
      classified == _classify_merchant(merchant)
  IN IF Len(transactions_list) < 2 \/ recurring_pattern = <<>> \/ ~(classified[2] > 700)
     THEN <<>>
     ELSE << [merchant_name |-> merchant, pattern |-> recurring_pattern[1],
              category |-> classified[1], confidence |-> classified[2],
              transactions |-> transactions_list] >>

RECURSIVE RecurringOfKeys(_, _)
RecurringOfKeys(txs, keys) ==
  IF keys = <<>> THEN <<>>
  ELSE RecurringOfMerchant(txs, Head(keys)) \o RecurringOfKeys(txs, Tail(keys))

_analyze_recurring_transactions(txs) == RecurringOfKeys(txs, MerchantKeys(txs))

\* the grouping loop raises KeyError at transaction['date'],
\* transaction['transaction_id'] or transaction['account_id'] for the first
\* transaction with a merchant name that lacks one of them
AnalyzeRecurringRaises(txs) ==
  \E i \in 1..Len(txs) :
    /\ Lower(txs[i].merchant_name) # <<>>
    /\ txs[i].missing \in {"date", "transaction_id", "account_id"}

CycleDays(billing_cycle) ==
  CASE billing_cycle = "monthly" -> 30
    [] billing_cycle = "quarterly" -> 90
    [] billing_cycle = "annual" -> 365
    [] billing_cycle = "weekly" -> 7
    [] OTHER -> 0

_create_subscription_from_transaction(recurring_data) ==
  LET pattern == recurring_data.pattern
      last_date == pattern.last_transaction_date
  IN DetectedSubscription(
       Title(recurring_data.merchant_name),
       _get_service_name(recurring_data.merchant_name),
       pattern.average_amount,
       pattern.billing_cycle,
       recurring_data.category,
       (recurring_data.confidence * pattern.interval_consistency) \div 1000,
       "bank",
       Naive(last_date),
       IF CycleDays(pattern.billing_cycle) = 0 THEN NoDate
         ELSE Naive(last_date + CycleDays(pattern.billing_cycle)),
       _get_cancellation_info(recurring_data.merchant_name),
       None)

(***************************************************************************)
(* Bank adapter: Plaid recurring streams.                                  *)
(* A stream is [stream_id, merchant_name, amount, frequency, last_date]:   *)
(* amount is last_amount.amount in signed cents, last_date a day number    *)
(* (0: no last_date).                                                      *)
(***************************************************************************)
_map_plaid_frequency_to_billing_cycle(frequency) ==
  CASE frequency = "WEEKLY" -> "weekly"
    [] frequency = "BIWEEKLY" -> "biweekly"
    [] frequency = "MONTHLY" -> "monthly"
    [] frequency = "QUARTERLY" -> "quarterly"
    [] frequency = "ANNUALLY" -> "annual"
    [] OTHER -> "monthly"

_calculate_next_billing_date(last_date, frequency) ==
  CASE frequency = "WEEKLY" -> Naive(last_date.day + 7)
    [] frequency = "BIWEEKLY" -> Naive(last_date.day + 14)
    [] frequency = "MONTHLY" -> Naive(last_date.day + 30)
    [] frequency = "QUARTERLY" -> Naive(last_date.day + 90)
    [] frequency = "ANNUALLY" -> Naive(last_date.day + 365)
    [] OTHER -> Naive(last_date.day + 30)

\* returns <<>> for None, <<subscription>> otherwise
_create_subscription_from_plaid_stream(s) ==
  LET amount == Abs(s.amount)
      last_date == IF s.last_date = 0 THEN NoDate ELSE Naive(s.last_date)
      classified == _classify_merchant(s.merchant_name)
  IN IF amount = 0 THEN <<>>
     ELSE << DetectedSubscription(
               Title(s.merchant_name),
               _get_service_name(s.merchant_name),
               amount,
               _map_plaid_frequency_to_billing_cycle(s.frequency),
               classified[1],
               Min({classified[2] + 200, 1000}),
               "bank",
               last_date,
               IF last_date = NoDate THEN NoDate
                 ELSE _calculate_next_billing_date(last_date, s.frequency),
               _get_cancellation_info(s.merchant_name),
               s.stream_id) >>

(***************************************************************************)
(* Bank specification: the pattern detector applied to every transaction   *)
(* list, and the stream conversion applied to every stream.                *)
(***************************************************************************)
\* charges <<merchant_name, amount, date>> the transaction lists are drawn from
ChargePool ==
  { << <<"N","e","t","f","l","i","x">>, -1549, 1 >>,
    << <<"N","e","t","f","l","i","x">>, -1549, 31 >>,
    << <<"N","E","T","F","L","I","X">>, -1549, 61 >>,
    << <<"N","e","t","f","l","i","x">>, -1549, 91 >>,
    << <<"N","e","t","f","l","i","x">>, -999, 61 >>,
    << <<"N","e","t","f","l","i","x">>, 0, 1 >>,
    << <<"N","e","t","f","l","i","x">>, 0, 91 >>,
    << <<"G","y","m">>, -3000, 31 >> }

\* the i-th transaction of a list of charges
RawTransaction(i, charge) ==
  [merchant_name |-> charge[1], amount |-> charge[2], date |-> charge[3],
   transaction_id |-> i, account_id |-> "acc-1", missing |-> "none"]

\* four monthly Netflix charges
NetflixCharges ==
  << << <<"N","e","t","f","l","i","x">>, -1549, 1 >>,
     << <<"N","e","t","f","l","i","x">>, -1549, 31 >>,
     << <<"N","E","T","F","L","I","X">>, -1549, 61 >>,
     << <<"N","e","t","f","l","i","x">>, -1549, 91 >> >>

\* a transaction dict without the key `missing`
MalformedTransaction(i, merchant_name, missing) ==
  [merchant_name |-> merchant_name, amount |-> -3000,
   date |-> IF missing = "date" THEN 0 ELSE 45,
   transaction_id |-> IF missing = "transaction_id" THEN 0 ELSE i,
   account_id |-> IF missing = "account_id" THEN "none" ELSE "acc-1",
   missing |-> missing]

\* merchant names and amounts of the monthly batches: names of every
\* classifier tier, in several spellings, charged or credited
BatchMerchants ==
  { <<"G","y","m">>, <<"G","y","m"," ","P","l","u","s">>, <<"N","e","t","f","l","i","x">>,
    <<"N","e","t","f","l","i","x"," ">>, <<"N","E","T","F","L","I","X">> }

BatchAmounts == {-1549, 1549}

\* four transactions a month apart: the first 4 - k of one merchant and
\* amount, the last k of another
MonthlyBatch(k, name1, amount1, name2, amount2) ==
  [i \in 1..4 |->
     RawTransaction(i, IF i <= 4 - k THEN <<name1, amount1, 1 + 30 * (i - 1)>>
                       ELSE <<name2, amount2, 1 + 30 * (i - 1)>>)]

\* the first k Netflix transactions with a malformed one put in at position p
BatchWithMalformed(k, p, merchant_name, missing) ==
  [i \in 1..(k + 1) |->
     IF i < p THEN RawTransaction(i, NetflixCharges[i])
     ELSE IF i = p THEN MalformedTransaction(i, merchant_name, missing)
     ELSE RawTransaction(i, NetflixCharges[i - 1])]

StreamPool ==
  [stream_id : {"stream-1"},
   merchant_name : { <<"n","e","t","f","l","i","x">>, <<"g","y","m">>,
                     <<"h","u","l","u"," ","p","l","u","s">> },
   amount : {-1549, 0, 1549},
   frequency : {"WEEKLY", "BIWEEKLY", "MONTHLY", "ANNUALLY", "UNKNOWN"},
   last_date : {0, 10}]

InitBank ==
  /\ \/ /\ \E charges \in SeqsUpTo(ChargePool, MaxTx) :
             transactions = [i \in 1..Len(charges) |-> RawTransaction(i, charges[i])]
        /\ stream = <<>>
        /\ bank_pc = "input"
     \/ /\ \E k \in 0..Len(NetflixCharges) : \E p \in 1..(k + 1) :
             \E merchant_name \in {<<"G","y","m">>, <<"N","e","t","f","l","i","x">>, <<>>} :
               \E missing \in {"date", "transaction_id", "account_id"} :
                 transactions = BatchWithMalformed(k, p, merchant_name, missing)
        /\ stream = <<>>
        /\ bank_pc = "input"
     \/ /\ \E k \in 0..2 : \E name1 \in BatchMerchants, name2 \in BatchMerchants :
             \E amount1 \in BatchAmounts, amount2 \in BatchAmounts :
               transactions = MonthlyBatch(k, name1, amount1, name2, amount2)
        /\ stream = <<>>
        /\ bank_pc = "input"
     \/ /\ transactions = <<>>
        /\ \E s \in StreamPool : stream = <<s>>
        /\ bank_pc = "stream_in"
  /\ recurring = <<>>
  /\ tx_subs = <<>>
  /\ stream_sub = <<>>
  /\ AllIdleBut("bank")

AnalyzeRecurring ==
  /\ bank_pc = "input"
  /\ IF AnalyzeRecurringRaises(transactions)
     THEN /\ bank_pc' = "analysis_raised"
          /\ UNCHANGED recurring
     ELSE /\ recurring' = _analyze_recurring_transactions(transactions)
          /\ bank_pc' = "analyzed"
  /\ UNCHANGED <<transactions, tx_subs, stream, stream_sub, notBankVars>>

CreateFromTransactions ==
  /\ bank_pc = "analyzed"
  /\ tx_subs' = [i \in 1..Len(recurring) |-> _create_subscription_from_transaction(recurring[i])]
  /\ bank_pc' = "created"
  /\ UNCHANGED <<transactions, recurring, stream, stream_sub, notBankVars>>

CreateFromStream ==
  /\ bank_pc = "stream_in"
  /\ stream_sub' = _create_subscription_from_plaid_stream(stream[1])
  /\ bank_pc' = "stream_out"
  /\ UNCHANGED <<transactions, recurring, tx_subs, stream, notBankVars>>

NextBank == AnalyzeRecurring \/ CreateFromTransactions \/ CreateFromStream

SpecBank == InitBank /\ [][NextBank]_vars

(***************************************************************************)
(* The pattern detector on its own: _detect_recurring_pattern applied to   *)
(* a date-sorted group (the caller sorts it) whose day intervals are drawn *)
(* from the edges of the billing-cycle ranges.  The amounts are all equal, *)
(* or the last one differs.                                                *)
(***************************************************************************)
IntervalPool == {5, 6, 8, 9, 25, 35, 36, 85, 95, 350, 374, 375, 376}

\* the transactions_list with the given day intervals, starting on day 1
RECURSIVE GroupOfIntervals(_, _)
GroupOfIntervals(intervals, last_amount) ==
  IF intervals = <<>>
  THEN << [amount |-> last_amount, date |-> 1, transaction_id |-> 1, account_id |-> "acc-1"] >>
  ELSE LET front == GroupOfIntervals(SubSeq(intervals, 1, Len(intervals) - 1), 1549)
           n == Len(front)
       IN [i \in 1..n |-> front[i]]
            \o << [amount |-> last_amount, date |-> front[n].date + intervals[Len(intervals)],
                   transaction_id |-> n + 1, account_id |-> "acc-1"] >>

InitPattern ==
  /\ \E k \in 1..(MaxGroup - 1) : \E intervals \in [1..k -> IntervalPool] :
       \E last_amount \in {1549, 999} :
         pattern_txs = GroupOfIntervals(intervals, last_amount)
  /\ pattern_out = <<>>
  /\ pattern_pc = "input"
  /\ AllIdleBut("pattern")

\* recurring_pattern = self._detect_recurring_pattern(transactions_list)
DetectPattern ==
  /\ pattern_pc = "input"
  /\ pattern_out' = _detect_recurring_pattern(pattern_txs)
  /\ pattern_pc' = "detected"
  /\ UNCHANGED <<pattern_txs, notPatternVars>>

NextPattern == DetectPattern

SpecPattern == InitPattern /\ [][NextPattern]_vars

(***************************************************************************)
(* The duplicate test on its own: _are_subscriptions_duplicate is called   *)
(* on a pair of candidates and then on the same pair in the other order.   *)
(* The pairs are the candidates of the two adapters and the entries a      *)
(* merge of one bank and one email candidate returns.                      *)
(***************************************************************************)
MergedPool ==
  UNION {SeqRange(_merge_subscription_sources(<<p[1]>>, <<p[2]>>).subs) :
           p \in {q \in BankPool \X EmailPool :
                    ~_merge_subscription_sources(<<q[1]>>, <<q[2]>>).raised}}

DuplicatePool == BankPool \cup EmailPool \cup MergedPool

InitDuplicate ==
  /\ dup_sub1 \in DuplicatePool
  /\ dup_sub2 \in DuplicatePool
  /\ are_duplicate = <<>>
  /\ dup_pc = "input"
  /\ AllIdleBut("dup")

\* self._are_subscriptions_duplicate(sub1, sub2)
DuplicateForward ==
  /\ dup_pc = "input"
  /\ are_duplicate' = <<_are_subscriptions_duplicate(dup_sub1, dup_sub2)>>
  /\ dup_pc' = "forward"
  /\ UNCHANGED <<dup_sub1, dup_sub2, notDupVars>>

\* self._are_subscriptions_duplicate(sub2, sub1)
DuplicateBackward ==
  /\ dup_pc = "forward"
  /\ are_duplicate' = Append(are_duplicate, _are_subscriptions_duplicate(dup_sub2, dup_sub1))
  /\ dup_pc' = "backward"
  /\ UNCHANGED <<dup_sub1, dup_sub2, notDupVars>>

NextDuplicate == DuplicateForward \/ DuplicateBackward

SpecDuplicate == InitDuplicate /\ [][NextDuplicate]_vars

(***************************************************************************)
(* The merchant classifier on its own: _classify_merchant applied to a     *)
(* merchant name, as the bank adapter (lower-cased grouping key) and the   *)
(* email adapter (name as found in the message) call it.                   *)
(***************************************************************************)
MerchantBases ==
  { <<"n","e","t","f","l","i","x">>,
    <<"s","p","o","t","i","f","y">>,
    <<"a","d","o","b","e">>,
    <<"i","c","l","o","u","d">>,
    <<"p","e","l","o","t","o","n">>,
    <<"m","e","d","i","u","m">>,
    <<"d","r","o","p","b","o","x">>,
    <<"g","y","m">>,
    <<"a","c","m","e">>,
    <<"h","b","o"," ","m","a","x">>,
    <<"m","e","d","i","u","m"," ","n","e","t","f","l","i","x">> }

MerchantSuffixes ==
  { <<>>, <<" ","i","n","c">>, <<".","c","o","m">>, <<" ","p","l","u","s">>, <<" ","s","u","b","s","c","r","i","p","t","i","o","n">> }

MerchantNamePool ==
  UNION {{b \o s, Title(b \o s)} : b \in MerchantBases, s \in MerchantSuffixes}

InitClassify ==
  /\ classify_name \in MerchantNamePool
  /\ classify_out = <<>>
  /\ classify_pc = "input"
  /\ AllIdleBut("classify")

\* category, confidence = self._classify_merchant(merchant)
ClassifyMerchant ==
  /\ classify_pc = "input"
  /\ classify_out' = _classify_merchant(classify_name)
  /\ classify_pc' = "classified"
  /\ UNCHANGED <<classify_name, notClassifyVars>>

NextClassify == ClassifyMerchant

SpecClassify == InitClassify /\ [][NextClassify]_vars

(***************************************************************************)
(* Analytics engine: _analyze_subscription_patterns.                       *)
(* Amounts are cents.  A monthly cost that is not rounded is kept exactly, *)
(* as a number of 1/300 cent (amount/12, amount/3 and amount*4.33 are all  *)
(* multiples of it).                                                       *)
(***************************************************************************)
\* round(num/den, 2) for a value in cents: to the nearest cent, a tie going
\* to the even cent
RoundHalfEven(num, den) ==
  LET q == num \div den
      r == num % den
  IN IF 2 * r < den THEN q
     ELSE IF 2 * r > den THEN q + 1
     ELSE IF q % 2 = 0 THEN q ELSE q + 1

MonthlyTotalShare_fourweeks(sub) ==
  IF sub.billing_cycle = "monthly" THEN 300 * sub.amount
  ELSE IF sub.billing_cycle = "annual" THEN 25 * sub.amount
  ELSE IF sub.billing_cycle = "weekly" THEN 1200 * sub.amount
  ELSE IF sub.billing_cycle = "quarterly" THEN 100 * sub.amount
  ELSE 0

\* what one subscription adds to monthly_total, in 1/300 cent
MonthlyTotalShare(sub) ==
  IF sub.billing_cycle = "monthly" THEN 300 * sub.amount
  ELSE IF sub.billing_cycle = "annual" THEN 25 * sub.amount
  ELSE IF sub.billing_cycle = "weekly" THEN 1299 * sub.amount
  ELSE IF sub.billing_cycle = "quarterly" THEN 100 * sub.amount
  ELSE 0

\* what one subscription adds to annual_total, in cents
AnnualTotalShare(sub) ==
  IF sub.billing_cycle = "monthly" THEN 12 * sub.amount
  ELSE IF sub.billing_cycle = "annual" THEN sub.amount
  ELSE IF sub.billing_cycle = "weekly" THEN 52 * sub.amount
  ELSE IF sub.billing_cycle = "quarterly" THEN 4 * sub.amount
  ELSE 0

\* monthly_cost of the category breakdown, in 1/300 cent
CategoryMonthlyCost(sub) ==
  IF sub.billing_cycle = "monthly" THEN 300 * sub.amount
  ELSE IF sub.billing_cycle = "annual" THEN 25 * sub.amount
  ELSE IF sub.billing_cycle = "weekly" THEN 1299 * sub.amount
  ELSE IF sub.billing_cycle = "quarterly" THEN 100 * sub.amount
  ELSE 300 * sub.amount

\* category_breakdown as the list of its items in insertion order
RECURSIVE CategoryBreakdown(_)
CategoryBreakdown(subscriptions) ==
  IF subscriptions = <<>> THEN <<>>
  ELSE LET n == Len(subscriptions)
           sub == subscriptions[n]
           rest == CategoryBreakdown(SubSeq(subscriptions, 1, n - 1))
       IN IF \E i \in 1..Len(rest) : rest[i].category = sub.category
          THEN [i \in 1..Len(rest) |->
                  IF rest[i].category = sub.category
                  THEN [category |-> sub.category, count |-> rest[i].count + 1,
                        monthly_cost |-> rest[i].monthly_cost + CategoryMonthlyCost(sub)]
                  ELSE rest[i]]
          ELSE Append(rest, [category |-> sub.category, count |-> 1,
                             monthly_cost |-> CategoryMonthlyCost(sub)])

\* billing_cycle_breakdown as the list of its items in insertion order
RECURSIVE BillingBreakdown(_)
BillingBreakdown(subscriptions) ==
  IF subscriptions = <<>> THEN <<>>
  ELSE LET n == Len(subscriptions)
           cycle == subscriptions[n].billing_cycle
           rest == BillingBreakdown(SubSeq(subscriptions, 1, n - 1))
       IN IF \E i \in 1..Len(rest) : rest[i].cycle = cycle
          THEN [i \in 1..Len(rest) |->
                  IF rest[i].cycle = cycle
                  THEN [cycle |-> cycle, count |-> rest[i].count + 1] ELSE rest[i]]
          ELSE Append(rest, [cycle |-> cycle, count |-> 1])

\* max(subscriptions, key=amount): the first of the highest amount
HighestSubscription(subscriptions) ==
  LET i == CHOOSE k \in 1..Len(subscriptions) :
             /\ \A j \in 1..Len(subscriptions) : subscriptions[j].amount <= subscriptions[k].amount
             /\ \A j \in 1..(k - 1) : subscriptions[j].amount < subscriptions[k].amount
  IN [name |-> subscriptions[i].merchant_name, amount |-> subscriptions[i].amount,
      cycle |-> subscriptions[i].billing_cycle]

\* the filter of the unused_trials comprehension, evaluated left to right
IsUnusedTrial(sub, now) ==
  /\ sub.confidence_score < 700
  /\ sub.last_transaction_date # NoDate
  /\ now - sub.last_transaction_date.day < 30

\* datetime.now() - sub.last_transaction_date raises TypeError when the date
\* is timezone-aware
AnalysisRaises(subscriptions) ==
  \E i \in 1..Len(subscriptions) :
    /\ subscriptions[i].confidence_score < 700
    /\ subscriptions[i].last_transaction_date.tz = "aware"

\* the dict returned; unused_trials is a list in the empty case and a count
\* otherwise
_analyze_subscription_patterns(subscriptions, now) ==
  IF subscriptions = <<>>
  THEN [total_monthly |-> 0, total_annual |-> 0, category_breakdown |-> <<>>,
        billing_cycle_breakdown |-> <<>>, average_subscription |-> 0,
        highest_subscription |-> <<>>,
        unused_trials |-> [is_list |-> TRUE, count |-> 0]]
  ELSE LET n == Len(subscriptions)
           monthly_total == SumSeq([i \in 1..n |-> MonthlyTotalShare(subscriptions[i])])
           annual_total == SumSeq([i \in 1..n |-> AnnualTotalShare(subscriptions[i])])
       IN [total_monthly |-> RoundHalfEven(monthly_total, 300),
           total_annual |-> annual_total,
           category_breakdown |-> CategoryBreakdown(subscriptions),
           billing_cycle_breakdown |-> BillingBreakdown(subscriptions),
           average_subscription |-> RoundHalfEven(monthly_total, 300 * n),
           highest_subscription |-> <<HighestSubscription(subscriptions)>>,
           subscription_count |-> n,
           unused_trials |->
             [is_list |-> FALSE,
              count |-> Cardinality({i \in 1..n : IsUnusedTrial(subscriptions[i], now)})]]

(***************************************************************************)
(* Recommendation generator: _generate_recommendations.                    *)
(* potential_savings is kept exactly, as a number of 1/600 cent.  A title  *)
(* or description is the tuple of the values formatted into it.            *)
(***************************************************************************)
DuplicateServices_morethanone(category_breakdown) ==
  LET multiple == SelectSeq(category_breakdown, LAMBDA data : data.count > 1)
  IN [i \in 1..Len(multiple) |->
        [type |-> "duplicate_services",
         title |-> <<"Multiple", multiple[i].category, "Services">>,
         description |-> <<multiple[i].count, multiple[i].category, multiple[i].monthly_cost>>,
         priority |-> "medium",
         potential_savings |-> multiple[i].monthly_cost]]

\* categories_with_multiple.items() filtered by count > 2, one
\* recommendation each, in the order of category_breakdown
RECURSIVE DuplicateServices(_)
DuplicateServices(category_breakdown) ==
  IF category_breakdown = <<>> THEN <<>>
  ELSE LET data == Head(category_breakdown)
       IN (IF data.count > 1 /\ data.count > 2
           THEN << [type |-> "duplicate_services",
                    title |-> <<"Multiple", data.category, "Services">>,
                    description |-> <<data.count, data.category, data.monthly_cost>>,
                    priority |-> "medium",
                    potential_savings |-> data.monthly_cost] >>
           ELSE <<>>)
          \o DuplicateServices(Tail(category_breakdown))

priority_order(priority) ==
  IF priority = "high" THEN 3 ELSE IF priority = "medium" THEN 2
  ELSE IF priority = "low" THEN 1 ELSE 0

\* an insertion that puts a later item ahead of its equals
RECURSIVE PriorityInsert_ahead(_, _)
PriorityInsert_ahead(sorted, x) ==
  IF sorted = <<>> THEN <<x>>
  ELSE IF priority_order(x.priority) >= priority_order(Head(sorted).priority)
       THEN <<x>> \o sorted
       ELSE <<Head(sorted)>> \o PriorityInsert_ahead(Tail(sorted), x)

\* recommendations.sort(key=priority_order, reverse=True): stable
RECURSIVE PriorityInsert(_, _)
PriorityInsert(sorted, x) ==
  IF sorted = <<>> THEN <<x>>
  ELSE IF priority_order(x.priority) > priority_order(Head(sorted).priority)
       THEN <<x>> \o sorted
       ELSE <<Head(sorted)>> \o PriorityInsert(Tail(sorted), x)

RECURSIVE SortByPriority(_)
SortByPriority(list) ==
  IF list = <<>> THEN <<>>
  ELSE PriorityInsert(SortByPriority(SubSeq(list, 1, Len(list) - 1)), list[Len(list)])

\* `analysis['unused_trials'] > 0` raises TypeError when unused_trials is a list
RecommendRaises(analysis) == analysis.unused_trials.is_list

\* the list returned when nothing is raised
_generate_recommendations(subscriptions, analysis) ==
  LET monthly_subs == SelectSeq(subscriptions,
                        LAMBDA s : s.billing_cycle = "monthly" /\ s.amount > 1000)
      high_spending ==
        IF analysis.total_monthly > 10000
        THEN << [type |-> "high_spending",
                 title |-> <<"High Monthly Subscription Spending">>,
                 description |-> <<analysis.total_monthly>>,
                 priority |-> "high",
                 potential_savings |-> 120 * analysis.total_monthly] >>
        ELSE <<>>
      annual_billing ==
        IF Len(monthly_subs) >= 3
        THEN << [type |-> "annual_billing",
                 title |-> <<"Switch to Annual Billing">>,
                 description |-> <<Len(monthly_subs)>>,
                 priority |-> "low",
                 potential_savings |->
                   SumSeq([i \in 1..Len(monthly_subs) |-> 1200 * monthly_subs[i].amount])] >>
        ELSE <<>>
      unused_trials ==
        IF analysis.unused_trials.count > 0
        THEN << [type |-> "unused_trials",
                 title |-> <<"Potential Unused Trials">>,
                 description |-> <<analysis.unused_trials.count>>,
                 priority |-> "high",
                 potential_savings |-> 0] >>
        ELSE <<>>
  IN SortByPriority(high_spending \o DuplicateServices(analysis.category_breakdown)
                      \o annual_billing \o unused_trials)

(***************************************************************************)
(* Report specification: analytics and then recommendations applied to    *)
(* every list of subscriptions, as discover_all_subscriptions does with    *)
(* the merged list.                                                        *)
(***************************************************************************)
ReportPool ==
  { DetectedSubscription(<<"S","p","o","t","i","f","y">>, None, 999, "monthly",
      "streaming", 900, "bank", Naive(10), Naive(40), None, None),
    DetectedSubscription(<<"N","e","t","f","l","i","x">>, None, 1299, "monthly",
      "streaming", 1000, "both", Naive(12), Naive(42), None, None),
    DetectedSubscription(<<"H","b","o"," ","M","a","x">>, None, 5299, "monthly",
      "streaming", 900, "bank", NoDate, NoDate, None, None),
    DetectedSubscription(<<"H","u","l","u">>, None, 1499, "monthly",
      "streaming", 1000, "email", Aware(12), Aware(42), None, None),
    DetectedSubscription(<<"P","e","l","o","t","o","n">>, None, 3202, "monthly",
      "fitness", 900, "bank", Naive(11), Naive(41), None, None),
    DetectedSubscription(<<"A","m","a","z","o","n"," ","P","r","i","m","e">>, None, 13900, "annual",
      "streaming", 1000, "email", Aware(20), Aware(385), None, None),
    DetectedSubscription(<<"D","a","i","l","y"," ","P","o","s","t">>, None, 500, "weekly",
      "unknown", 400, "email", Naive(20), Naive(27), None, None),
    DetectedSubscription(<<"B","o","x"," ","P","r","o">>, None, 1000, "quarterly",
      "unknown", 600, "bank", Naive(20), Naive(110), None, None),
    DetectedSubscription(<<"H","u","l","u"," ","P","l","u","s">>, None, 1799, "biweekly",
      "streaming", 1000, "bank", Naive(9), Naive(23), None, None),
    DetectedSubscription(<<"A","c","m","e"," ","T","r","i","a","l">>, None, 500, "monthly",
      "unknown", 400, "email", Aware(22), Aware(52), None, None) }

\* two crowded categories: three streaming and three unknown subscriptions,
\* either category met first
CrowdedStreaming ==
  << DetectedSubscription(<<"S","p","o","t","i","f","y">>, None, 999, "monthly",
       "streaming", 900, "bank", Naive(10), Naive(40), None, None),
     DetectedSubscription(<<"N","e","t","f","l","i","x">>, None, 1299, "monthly",
       "streaming", 1000, "both", Naive(12), Naive(42), None, None),
     DetectedSubscription(<<"H","b","o"," ","M","a","x">>, None, 5299, "monthly",
       "streaming", 900, "bank", NoDate, NoDate, None, None) >>

CrowdedUnknown ==
  << DetectedSubscription(<<"D","a","i","l","y"," ","P","o","s","t">>, None, 500, "weekly",
       "unknown", 400, "email", Naive(20), Naive(27), None, None),
     DetectedSubscription(<<"B","o","x"," ","P","r","o">>, None, 1000, "quarterly",
       "unknown", 600, "bank", Naive(20), Naive(110), None, None),
     DetectedSubscription(<<"A","c","m","e"," ","B","o","x">>, None, 4500, "monthly",
       "unknown", 600, "bank", Naive(21), Naive(51), None, None) >>

CrowdedLists ==
  { CrowdedStreaming \o CrowdedUnknown, CrowdedUnknown \o CrowdedStreaming,
    <<CrowdedUnknown[1]>> \o CrowdedStreaming \o Tail(CrowdedUnknown) }

InitReport ==
  /\ report_subs \in SeqsUpTo(ReportPool, MaxSubs) \cup CrowdedLists
  /\ report_now \in {25, 60}
  /\ report_analysis = <<>>
  /\ report_recs = <<>>
  /\ report_pc = "input"
  /\ AllIdleBut("report")

\* analysis = self._analyze_subscription_patterns(merged_subscriptions)
AnalyzePatterns ==
  /\ report_pc = "input"
  /\ IF AnalysisRaises(report_subs)
     THEN /\ report_pc' = "analysis_raised"
          /\ UNCHANGED report_analysis
     ELSE /\ report_analysis' = <<_analyze_subscription_patterns(report_subs, report_now)>>
          /\ report_pc' = "analyzed"
  /\ UNCHANGED <<report_subs, report_now, report_recs, notReportVars>>

\* recommendations = self._generate_recommendations(merged_subscriptions, analysis)
GenerateRecommendations ==
  /\ report_pc = "analyzed"
  /\ IF RecommendRaises(report_analysis[1])
     THEN /\ report_pc' = "recommend_raised"
          /\ UNCHANGED report_recs
     ELSE /\ report_recs' = _generate_recommendations(report_subs, report_analysis[1])
          /\ report_pc' = "recommended"
  /\ UNCHANGED <<report_subs, report_now, report_analysis, notReportVars>>

NextReport == AnalyzePatterns \/ GenerateRecommendations

SpecReport == InitReport /\ [][NextReport]_vars

(***************************************************************************)
(* Email signal extractor.                                                 *)
(* A text is a sequence of tokens in reading order.  A word token carries  *)
(* its characters.  An amount token is a number as written (its            *)
(* characters), with what stands around it: a leading "$", a following     *)
(* "usd"/"dollar(s)", and the label in front of it ("amount", "total",     *)
(* "charged", "billed" or none).                                           *)
(***************************************************************************)
Word(w) == [kind |-> "word", text |-> w, label |-> "none", dollar |-> FALSE, unit |-> FALSE]

AmountToken(label, dollar, unit, digits) ==
  [kind |-> "amount", text |-> digits, label |-> label, dollar |-> dollar, unit |-> unit]

Digits == <<"0","1","2","3","4","5","6","7","8","9">>

DigitValue(c) == (CHOOSE i \in 1..10 : Digits[i] = c) - 1

\* the value of a string of digits
RECURSIVE IntOfDigits(_)
IntOfDigits(s) ==
  IF s = <<>> THEN 0 ELSE 10 * IntOfDigits(SubSeq(s, 1, Len(s) - 1)) + DigitValue(s[Len(s)])

\* float() of a match of \d+\.?\d* with at most two decimals, in cents
ParseFloat(s) ==
  LET dots == {i \in 1..Len(s) : s[i] = "."}
  IN IF dots = {} THEN 100 * IntOfDigits(s)
     ELSE LET d == Min(dots)
              decimals == SubSeq(s, d + 1, Len(s))
          IN 100 * IntOfDigits(SubSeq(s, 1, d - 1))
               + (IF Len(decimals) = 0 THEN 0
                  ELSE IF Len(decimals) = 1 THEN 10 * IntOfDigits(decimals)
                  ELSE IntOfDigits(SubSeq(decimals, 1, 2)))

\* the currency patterns of _extract_amount_from_text, in order
amount_patterns == <<"dollar", "unit", "amount", "total", "charged", "billed">>

\* re.findall(pattern, text) finds the token
PatternFinds(pattern, token) ==
  /\ token.kind = "amount"
  /\ \/ pattern = "dollar" /\ token.dollar
     \/ pattern = "unit" /\ token.unit
     \/ pattern \in {"amount", "total", "charged", "billed"} /\ token.label = pattern

\* a band whose upper end is ten times too wide
InAmountBand_wide(cents) == 99 <= cents /\ cents <= 999999

\* 0.99 <= amount <= 999.99
InAmountBand(cents) == 99 <= cents /\ cents <= 99999

\* the loop over the patterns from the k-th on; <<>> for None
RECURSIVE AmountFromPatterns(_, _)
AmountFromPatterns(text, k) ==
  IF k > Len(amount_patterns) THEN <<>>
  ELSE LET matches == SelectSeq(text, LAMBDA token : PatternFinds(amount_patterns[k], token))
       IN IF matches # <<>> /\ InAmountBand(ParseFloat(matches[1].text))
          THEN <<ParseFloat(matches[1].text)>>
          ELSE AmountFromPatterns(text, k + 1)

_extract_amount_from_text(text) == AmountFromPatterns(text, 1)

\* `word in text` for some word of the list
AnyWordIn(words, text) ==
  \E w \in 1..Len(words) : \E t \in 1..Len(text) :
    text[t].kind = "word" /\ Contains(words[w], text[t].text)

_extract_billing_cycle_from_text(text) ==
  IF AnyWordIn(<<<<"m","o","n","t","h","l","y">>, <<"m","o","n","t","h">>, <<"/","m","o">>>>, text) THEN "monthly"
  ELSE IF AnyWordIn(<<<<"a","n","n","u","a","l">>, <<"y","e","a","r","l","y">>, <<"y","e","a","r">>, <<"/","y","r">>>>, text) THEN "annual"
  ELSE IF AnyWordIn(<<<<"w","e","e","k","l","y">>, <<"w","e","e","k">>>>, text) THEN "weekly"
  ELSE IF AnyWordIn(<<<<"q","u","a","r","t","e","r","l","y">>, <<"q","u","a","r","t","e","r">>>>, text) THEN "quarterly"
  ELSE "monthly"

(***************************************************************************)
(* Email signal extractor: the merchant of a message.                      *)
(* A sender is [display, domain]: display is the text in front of "<" (the *)
(* whole header when it has no "<"), domain the text between the first "@" *)
(* and the next ".".  A subject is its sequence of words, each a run of    *)
(* letters.                                                                *)
(***************************************************************************)
StartsWith(prefix, s) == Len(prefix) <= Len(s) /\ SubSeq(s, 1, Len(prefix)) = prefix

\* str.strip('"')
StripQuotes(s) ==
  LET keep == {i \in 1..Len(s) : s[i] # "\""}
  IN IF keep = {} THEN <<>> ELSE SubSeq(s, Min(keep), Max(keep))

\* re.sub(r'^(no-?reply|support|billing|noreply)@?', '', name, flags=re.IGNORECASE)
sender_prefixes == <<<<"n","o","-","r","e","p","l","y">>, <<"n","o","r","e","p","l","y">>, <<"s","u","p","p","o","r","t">>, <<"b","i","l","l","i","n","g">>>>

RemoveSenderPrefix(name) ==
  LET hits == {k \in 1..Len(sender_prefixes) : StartsWith(sender_prefixes[k], Lower(name))}
  IN IF hits = {} THEN name
     ELSE LET rest == SubSeq(name, Len(sender_prefixes[Min(hits)]) + 1, Len(name))
          IN IF rest # <<>> /\ rest[1] = "@" THEN Tail(rest) ELSE rest

generic_domains == <<<<"g","m","a","i","l">>, <<"y","a","h","o","o">>, <<"h","o","t","m","a","i","l">>, <<"o","u","t","l","o","o","k">>, <<"m","a","i","l">>>>

\* <<>> for None
_extract_merchant_from_sender(sender) ==
  LET name == Strip(RemoveSenderPrefix(StripQuotes(Strip(sender.display))))
  IN IF sender.display = <<>> /\ sender.domain = <<>> THEN <<>>
     ELSE IF sender.display # <<>> /\ Len(name) > 2 THEN <<name>>
     ELSE IF sender.domain # <<>>
             /\ ~\E k \in 1..Len(generic_domains) : generic_domains[k] = Lower(sender.domain)
          THEN <<Title(sender.domain)>>
          ELSE <<>>

\* the word captured by the first match of each subject pattern, in pattern
\* order; <<>> where the pattern has no match
SubjectCaptures(subject) ==
  LET n == Len(subject)
      low == [i \in 1..n |-> Lower(subject[i])]
      after_your == {i \in 1..(n - 2) :
                       /\ low[i] = <<"y","o","u","r">>
                       /\ \E w \in {<<"s","u","b","s","c","r","i","p","t","i","o","n">>, <<"b","i","l","l">>, <<"i","n","v","o","i","c","e">>} : StartsWith(w, low[i + 2])}
      before_plan == {i \in 1..(n - 1) :
                        \E w \in {<<"p","r","e","m","i","u","m">>, <<"p","r","o">>, <<"p","l","u","s">>, <<"s","u","b","s","c","r","i","p","t","i","o","n">>} : StartsWith(w, low[i + 1])}
      after_choosing == {i \in 1..(n - 4) :
                           /\ low[i] = <<"t","h","a","n","k">> /\ low[i + 1] = <<"y","o","u">>
                           /\ low[i + 2] = <<"f","o","r">> /\ low[i + 3] = <<"c","h","o","o","s","i","n","g">>}
      after_welcome == {i \in 1..(n - 2) : low[i] = <<"w","e","l","c","o","m","e">> /\ low[i + 1] = <<"t","o">>}
  IN << IF after_your = {} THEN <<>> ELSE subject[Min(after_your) + 1],
        IF before_plan = {} THEN <<>> ELSE subject[Min(before_plan)],
        IF after_choosing = {} THEN <<>> ELSE subject[Min(after_choosing) + 4],
        IF after_welcome = {} THEN <<>> ELSE subject[Min(after_welcome) + 2] >>

\* <<>> for None
_extract_merchant_from_subject(subject) ==
  LET long == SelectSeq(SubjectCaptures(subject), LAMBDA merchant : Len(merchant) > 2)
  IN IF long = <<>> THEN <<>> ELSE <<long[1]>>

(***************************************************************************)
(* Email signal extractor: one message.                                    *)
(* A message is [id, has_payload, subject, sender, body, date]: subject,   *)
(* sender and date are the headers ("" when absent), body the text of      *)
(* _extract_email_body.  A Date header is [form, day]: form is "zone" (a   *)
(* date with a numeric zone), "nozone" (zone -0000), "garbage" or          *)
(* "missing".                                                              *)
(***************************************************************************)
\* parsedate_to_datetime(date_str), None when the header is absent or the
\* parse raises
MessageDate(date) ==
  IF date.form = "zone" THEN Aware(date.day)
  ELSE IF date.form = "nozone" THEN Naive(date.day)
  ELSE NoDate

\* f"{subject} {sender} {body}".lower()
FullText(subject, sender, body) ==
  LET raw == [i \in 1..Len(subject) |-> Word(subject[i])]
               \o <<Word(sender.display), Word(sender.domain)>> \o body
  IN [i \in 1..Len(raw) |-> [raw[i] EXCEPT !.text = Lower(raw[i].text)]]

\* timedelta of _calculate_next_billing_date_from_cycle
CycleDaysOrMonth(cycle) ==
  CASE cycle = "weekly" -> 7
    [] cycle = "monthly" -> 30
    [] cycle = "quarterly" -> 90
    [] cycle = "annual" -> 365
    [] OTHER -> 30

_calculate_next_billing_date_from_cycle(last_date, cycle) ==
  IF last_date = NoDate THEN NoDate
  ELSE [last_date EXCEPT !.day = last_date.day + CycleDaysOrMonth(cycle)]

\* <<>> for None, <<dict>> otherwise
_extract_subscription_info_from_email(subject, sender, body, date) ==
  LET full_text == FullText(subject, sender, body)
      from_sender == _extract_merchant_from_sender(sender)
      merchant == IF from_sender # <<>> THEN from_sender
                  ELSE _extract_merchant_from_subject(subject)
      amount == _extract_amount_from_text(full_text)
      billing_cycle == _extract_billing_cycle_from_text(full_text)
  IN IF merchant = <<>> THEN <<>>
     ELSE IF amount = <<>> THEN <<>>
     ELSE << [merchant_name |-> Title(merchant[1]),
              service_name |-> _get_service_name(merchant[1]),
              amount |-> amount[1],
              billing_cycle |-> billing_cycle,
              category |-> _classify_merchant(merchant[1])[1],
              confidence_score |-> Min({_classify_merchant(merchant[1])[2] + 100, 1000}),
              next_billing_date |-> _calculate_next_billing_date_from_cycle(date, billing_cycle),
              cancellation_info |-> _get_cancellation_info(merchant[1])] >>

\* <<>> for None (a message without payload raises KeyError, which is caught)
_analyze_email_for_subscription(message) ==
  IF ~message.has_payload THEN <<>>
  ELSE LET message_date == MessageDate(message.date)
           subscription_info == _extract_subscription_info_from_email(
                                  message.subject, message.sender, message.body, message_date)
       IN IF subscription_info = <<>> THEN <<>>
          ELSE << DetectedSubscription(subscription_info[1].merchant_name,
                    subscription_info[1].service_name, subscription_info[1].amount,
                    subscription_info[1].billing_cycle, subscription_info[1].category,
                    subscription_info[1].confidence_score, "email", message_date,
                    subscription_info[1].next_billing_date,
                    subscription_info[1].cancellation_info, None) >>

(***************************************************************************)
(* Extract specification: _analyze_email_for_subscription applied to every *)
(* message made of a sender, a subject, a body and a Date header.          *)
(***************************************************************************)
SenderPool ==
  { [display |-> <<"N","e","t","f","l","i","x">>, domain |-> <<"n","e","t","f","l","i","x">>],
    [display |-> <<"n","o","r","e","p","l","y","@","h","u","l","u",".","c","o","m">>, domain |-> <<"h","u","l","u">>],
    [display |-> <<>>, domain |-> <<"g","m","a","i","l">>],
    [display |-> <<"H","Q">>, domain |-> <<"a","c","m","e">>],
    [display |-> <<>>, domain |-> <<>>] }

SubjectPool ==
  { <<<<"Y","o","u","r">>, <<"S","p","o","t","i","f","y">>, <<"s","u","b","s","c","r","i","p","t","i","o","n">>, <<"r","e","c","e","i","p","t">>>>,
    <<<<"A","c","c","o","u","n","t">>, <<"s","t","a","t","e","m","e","n","t">>>>,
    <<<<"W","e","l","c","o","m","e">>, <<"t","o">>, <<"M","e","d","i","u","m">>, <<"y","e","a","r","l","y">>>> }

BodyPool ==
  { <<AmountToken("none", TRUE, FALSE, <<"1","5","0","0",".","0","0">>)>>,
    <<Word(<<"o","r","d","e","r">>), AmountToken("total", TRUE, FALSE, <<"1","5","0","0",".","0","0">>)>>,
    <<AmountToken("none", TRUE, FALSE, <<"9",".","9","9">>), Word(<<"p","e","r">>), Word(<<"m","o","n","t","h">>)>>,
    <<AmountToken("none", TRUE, FALSE, <<"1","5","0","0",".","0","0">>), Word(<<"c","r","e","d","i","t">>), AmountToken("total", FALSE, FALSE, <<"9",".","9","9">>)>>,
    <<AmountToken("none", TRUE, FALSE, <<"1","5","0","0",".","0","0">>), AmountToken("none", TRUE, FALSE, <<"9",".","9","9">>)>>,
    <<Word(<<"r","e","n","e","w","s">>), Word(<<"w","e","e","k","l","y">>)>>,
    <<AmountToken("none", FALSE, TRUE, <<"0",".","5","0">>)>>,
    <<AmountToken("charged", TRUE, FALSE, <<"9","9","9",".","9","9">>), Word(<<"p","e","r">>), Word(<<"q","u","a","r","t","e","r">>)>>,
    <<AmountToken("billed", FALSE, FALSE, <<"0",".","9","8">>), AmountToken("amount", FALSE, TRUE, <<"1","0","0","0">>)>> }

DatePool == {[form |-> "zone", day |-> 12], [form |-> "missing", day |-> 0]}

InitExtract ==
  /\ \E sender \in SenderPool, subject \in SubjectPool, body \in BodyPool, date \in DatePool :
       extract_msg = [id |-> "m1", has_payload |-> TRUE, subject |-> subject,
                      sender |-> sender, body |-> body, date |-> date]
  /\ extract_info = <<>>
  /\ extract_sub = <<>>
  /\ extract_pc = "input"
  /\ AllIdleBut("extract")

\* subscription = await self._analyze_email_for_subscription(service, message['id'], user_id)
AnalyzeEmail ==
  /\ extract_pc = "input"
  /\ extract_info' = _extract_subscription_info_from_email(extract_msg.subject,
                        extract_msg.sender, extract_msg.body, MessageDate(extract_msg.date))
  /\ extract_sub' = _analyze_email_for_subscription(extract_msg)
  /\ extract_pc' = "analyzed"
  /\ UNCHANGED <<extract_msg, notExtractVars>>

NextExtract == AnalyzeEmail

SpecExtract == InitExtract /\ [][NextExtract]_vars

(***************************************************************************)
(* Bank adapter: the loop over the access tokens.                          *)
(* For every access token the Plaid collaborator either returns a response *)
(* with outflow streams, raises plaid.ApiException with some body, or      *)
(* raises another exception.                                               *)
(***************************************************************************)
\* e.body of a plaid.ApiException: a JSON object with one of two error codes
\* or another one, a JSON document that is not an object, text that is not
\* JSON, or None
ApiBodies == {"ITEM_LOGIN_REQUIRED", "PRODUCT_NOT_READY", "object", "list", "not_json", "none"}

\* json.loads(e.body) raises on text that is not JSON (JSONDecodeError) and on
\* None (TypeError); error_response.get raises on a document that is not an
\* object (AttributeError)
ApiHandlerRaises(body) == body \in {"list", "not_json", "none"}

TokenStreamsPool ==
  { <<>>,
    << [stream_id |-> "stream-1", merchant_name |-> <<"n","e","t","f","l","i","x">>,
        amount |-> 1549, frequency |-> "MONTHLY", last_date |-> 10] >>,
    << [stream_id |-> "stream-2", merchant_name |-> <<"g","y","m">>,
        amount |-> 0, frequency |-> "MONTHLY", last_date |-> 10],
       [stream_id |-> "stream-3", merchant_name |-> <<"h","u","l","u"," ","p","l","u","s">>,
        amount |-> -1799, frequency |-> "WEEKLY", last_date |-> 0] >> }

TokenResponsePool ==
  {[kind |-> "response", streams |-> s, body |-> "none"] : s \in TokenStreamsPool}
    \cup {[kind |-> "ApiException", streams |-> <<>>, body |-> b] : b \in ApiBodies}
    \cup {[kind |-> "Exception", streams |-> <<>>, body |-> "none"]}

\* for stream in outflow_streams: append the subscription when there is one
RECURSIVE SubscriptionsOfStreams(_)
SubscriptionsOfStreams(outflow_streams) ==
  IF outflow_streams = <<>> THEN <<>>
  ELSE _create_subscription_from_plaid_stream(Head(outflow_streams))
         \o SubscriptionsOfStreams(Tail(outflow_streams))

InitToken ==
  /\ plaid_client \in BOOLEAN
  /\ \E n \in 0..MaxTokens : token_plan \in [1..n -> TokenResponsePool]
  /\ token_idx = 0
  /\ token_detected = <<>>
  /\ token_pc = "loop"
  /\ AllIdleBut("token")

\* if not self.plaid_client: return detected_subscriptions
ClientMissing ==
  /\ token_pc = "loop"
  /\ ~plaid_client
  /\ token_pc' = "returned"
  /\ UNCHANGED <<plaid_client, token_plan, token_idx, token_detected, notTokenVars>>

\* one pass of the loop whose try block completes
TokenProcessed ==
  /\ token_pc = "loop" /\ plaid_client
  /\ token_idx < Len(token_plan)
  /\ token_plan[token_idx + 1].kind = "response"
  /\ token_detected' = token_detected \o SubscriptionsOfStreams(token_plan[token_idx + 1].streams)
  /\ token_idx' = token_idx + 1
  /\ UNCHANGED <<plaid_client, token_plan, token_pc, notTokenVars>>

\* except plaid.ApiException: the handler parses the body, logs and continues
TokenApiError ==
  /\ token_pc = "loop" /\ plaid_client
  /\ token_idx < Len(token_plan)
  /\ token_plan[token_idx + 1].kind = "ApiException"
  /\ ~ApiHandlerRaises(token_plan[token_idx + 1].body)
  /\ token_idx' = token_idx + 1
  /\ UNCHANGED <<plaid_client, token_plan, token_detected, token_pc, notTokenVars>>

\* except plaid.ApiException: the handler itself raises, and an exception
\* raised in a handler is not caught by the `except Exception` next to it
TokenApiErrorHandlerRaises ==
  /\ token_pc = "loop" /\ plaid_client
  /\ token_idx < Len(token_plan)
  /\ token_plan[token_idx + 1].kind = "ApiException"
  /\ ApiHandlerRaises(token_plan[token_idx + 1].body)
  /\ token_pc' = "raised"
  /\ UNCHANGED <<plaid_client, token_plan, token_idx, token_detected, notTokenVars>>

\* except Exception: log and continue
TokenError ==
  /\ token_pc = "loop" /\ plaid_client
  /\ token_idx < Len(token_plan)
  /\ token_plan[token_idx + 1].kind = "Exception"
  /\ token_idx' = token_idx + 1
  /\ UNCHANGED <<plaid_client, token_plan, token_detected, token_pc, notTokenVars>>

\* return detected_subscriptions
TokensReturn ==
  /\ token_pc = "loop" /\ plaid_client
  /\ token_idx = Len(token_plan)
  /\ token_pc' = "returned"
  /\ UNCHANGED <<plaid_client, token_plan, token_idx, token_detected, notTokenVars>>

NextToken ==
  ClientMissing \/ TokenProcessed \/ TokenApiError \/ TokenApiErrorHandlerRaises
    \/ TokenError \/ TokensReturn

SpecToken == InitToken /\ [][NextToken]_vars

(***************************************************************************)
(* The bank adapter as a whole: what discover_subscriptions_from_bank      *)
(* returns for a plan of collaborator answers, or that it raises.          *)
(***************************************************************************)
RECURSIVE BankTokenLoop(_, _)
BankTokenLoop(plan, detected) ==
  IF plan = <<>> THEN [raised |-> FALSE, subs |-> detected]
  ELSE LET answer == Head(plan)
       IN CASE answer.kind = "response" ->
                 BankTokenLoop(Tail(plan), detected \o SubscriptionsOfStreams(answer.streams))
            [] answer.kind = "ApiException" ->
                 IF ApiHandlerRaises(answer.body) THEN [raised |-> TRUE, subs |-> <<>>]
                 ELSE BankTokenLoop(Tail(plan), detected)
            [] OTHER -> BankTokenLoop(Tail(plan), detected)

discover_subscriptions_from_bank(client, plan) ==
  IF ~client THEN [raised |-> FALSE, subs |-> <<>>]
  ELSE BankTokenLoop(plan, <<>>)

(***************************************************************************)
(* The email adapter as a whole.                                           *)
(* A mailbox is the Gmail collaborator: whether build() succeeds, what     *)
(* messages().list answers for each of the five queries (an error, or a    *)
(* list of message references, a reference being [has_id, id]), and what   *)
(* messages().get answers for an id (<<>>: an error, <<message>>           *)
(* otherwise).                                                             *)
(***************************************************************************)
\* all_messages.extend(messages) for every query that did not fail
RECURSIVE AllMessages(_)
AllMessages(results) ==
  IF results = <<>> THEN <<>>
  ELSE (IF Head(results).ok THEN Head(results).messages ELSE <<>>) \o AllMessages(Tail(results))

\* the keys of {msg['id']: msg for msg in all_messages}, in insertion order
RECURSIVE UniqueIds(_, _)
UniqueIds(messages, seen) ==
  IF messages = <<>> THEN seen
  ELSE UniqueIds(Tail(messages),
                 IF \E i \in 1..Len(seen) : seen[i] = Head(messages).id THEN seen
                 ELSE Append(seen, Head(messages).id))

\* the loop over unique_messages: a message that cannot be fetched or that
\* yields nothing is passed over
RECURSIVE AnalyzeMessages(_, _)
AnalyzeMessages(ids, fetched) ==
  IF ids = <<>> THEN <<>>
  ELSE (IF fetched[Head(ids)] = <<>> THEN <<>>
        ELSE _analyze_email_for_subscription(fetched[Head(ids)][1]))
         \o AnalyzeMessages(Tail(ids), fetched)

discover_subscriptions_from_email(mailbox) ==
  IF mailbox.build # "ok" THEN <<>>
  ELSE LET all_messages == AllMessages(mailbox.results)
       IN IF \E i \in 1..Len(all_messages) : ~all_messages[i].has_id
          THEN <<>>   \* KeyError in the dict comprehension, caught by the outer handler
          ELSE AnalyzeMessages(UniqueIds(all_messages, <<>>), mailbox.fetched)

(***************************************************************************)
(* The discovery run: discover_all_subscriptions, one action for each      *)
(* point where the coroutine starts an adapter, gets its result back, or   *)
(* runs a stage of the pipeline.                                           *)
(***************************************************************************)
RunResponsePool ==
  { [kind |-> "response", body |-> "none",
     streams |-> << [stream_id |-> "stream-1", merchant_name |-> <<"n","e","t","f","l","i","x">>,
                     amount |-> 1549, frequency |-> "MONTHLY", last_date |-> 10] >>],
    [kind |-> "Exception", streams |-> <<>>, body |-> "none"],
    [kind |-> "ApiException", streams |-> <<>>, body |-> "ITEM_LOGIN_REQUIRED"],
    [kind |-> "ApiException", streams |-> <<>>, body |-> "not_json"] }

Ref(id) == [has_id |-> TRUE, id |-> id]
RefWithoutId == [has_id |-> FALSE, id |-> "none"]
QueryResult(messages) == [ok |-> TRUE, messages |-> messages]
QueryError == [ok |-> FALSE, messages |-> <<>>]

\* m1: Netflix, $9.99 per month; m2: sender on a generic domain, the subject
\* names Spotify; m3: a message without payload
MailMessages ==
  [m1 |-> [id |-> "m1", has_payload |-> TRUE,
           subject |-> <<<<"A","c","c","o","u","n","t">>, <<"s","t","a","t","e","m","e","n","t">>>>,
           sender |-> [display |-> <<"N","e","t","f","l","i","x">>, domain |-> <<"n","e","t","f","l","i","x">>],
           body |-> <<AmountToken("none", TRUE, FALSE, <<"9",".","9","9">>), Word(<<"p","e","r">>), Word(<<"m","o","n","t","h">>)>>,
           date |-> [form |-> "zone", day |-> 12]],
   m2 |-> [id |-> "m2", has_payload |-> TRUE,
           subject |-> <<<<"Y","o","u","r">>, <<"S","p","o","t","i","f","y">>, <<"s","u","b","s","c","r","i","p","t","i","o","n">>, <<"r","e","c","e","i","p","t">>>>,
           sender |-> [display |-> <<>>, domain |-> <<"g","m","a","i","l">>],
           body |-> <<AmountToken("total", TRUE, FALSE, <<"4",".","9","9">>)>>,
           date |-> [form |-> "missing", day |-> 0]],
   m3 |-> [id |-> "m3", has_payload |-> FALSE, subject |-> <<>>,
           sender |-> [display |-> <<>>, domain |-> <<>>], body |-> <<>>,
           date |-> [form |-> "missing", day |-> 0]]]

AllFetched == [id \in {"m1", "m2", "m3"} |-> <<MailMessages[id]>>]

MailboxPool ==
  { [build |-> "HttpError", results |-> <<>>, fetched |-> AllFetched],
    [build |-> "Exception", results |-> <<>>, fetched |-> AllFetched],
    [build |-> "ok", fetched |-> AllFetched,
     results |-> <<QueryResult(<<Ref("m1"), Ref("m2")>>), QueryResult(<<Ref("m1")>>),
                   QueryResult(<<>>), QueryResult(<<Ref("m3")>>), QueryResult(<<>>)>>],
    [build |-> "ok", fetched |-> AllFetched,
     results |-> <<QueryError, QueryResult(<<Ref("m2")>>), QueryError, QueryError, QueryError>>],
    [build |-> "ok", fetched |-> AllFetched,
     results |-> <<QueryError, QueryError, QueryError, QueryError, QueryError>>],
    [build |-> "ok", fetched |-> [AllFetched EXCEPT !["m1"] = <<>>],
     results |-> <<QueryResult(<<Ref("m1"), Ref("m2")>>), QueryResult(<<>>),
                   QueryResult(<<>>), QueryResult(<<>>), QueryResult(<<>>)>>],
    [build |-> "ok", fetched |-> AllFetched,
     results |-> <<QueryResult(<<Ref("m1"), RefWithoutId, Ref("m2")>>), QueryResult(<<>>),
                   QueryResult(<<>>), QueryResult(<<>>), QueryResult(<<>>)>>] }

InitRun ==
  /\ \E n \in 0..MaxTokens : run_plan \in [1..n -> RunResponsePool]
  /\ run_mailbox \in {<<>>} \cup {<<mailbox>> : mailbox \in MailboxPool}
  /\ run_now = 25
  /\ run_bank = "pending"
  /\ run_email = "pending"
  /\ run_bank_subs = <<>>
  /\ run_email_subs = <<>>
  /\ run_merged = <<>>
  /\ run_analysis = <<>>
  /\ run_recs = <<>>
  /\ run_pc = "bank"
  /\ AllIdleBut("run")

\* if bank_access_tokens: ... await self.discover_subscriptions_from_bank(...)
StartBank ==
  /\ run_pc = "bank"
  /\ run_plan # <<>>
  /\ run_bank' = "running"
  /\ run_pc' = "bank_await"
  /\ UNCHANGED <<run_plan, run_mailbox, run_now, run_email, run_bank_subs, run_email_subs, run_merged, run_analysis, run_recs, notRunVars>>

\* bank_access_tokens is None or empty
SkipBank ==
  /\ run_pc = "bank"
  /\ run_plan = <<>>
  /\ run_bank' = "skipped"
  /\ run_pc' = "email"
  /\ UNCHANGED <<run_plan, run_mailbox, run_now, run_email, run_bank_subs, run_email_subs, run_merged, run_analysis, run_recs, notRunVars>>

\* the awaited bank adapter returns its list, or its exception leaves the run
BankCompletes ==
  /\ run_pc = "bank_await"
  /\ LET r == discover_subscriptions_from_bank(TRUE, run_plan)
     IN IF r.raised
        THEN /\ run_bank' = "failed"
             /\ run_pc' = "raised"
             /\ UNCHANGED run_bank_subs
        ELSE /\ run_bank' = "done"
             /\ run_bank_subs' = r.subs
             /\ run_pc' = "email"
  /\ UNCHANGED <<run_plan, run_mailbox, run_now, run_email, run_email_subs, run_merged, run_analysis, run_recs, notRunVars>>

\* if gmail_credentials: ... await self.discover_subscriptions_from_email(...)
StartEmail ==
  /\ run_pc = "email"
  /\ run_mailbox # <<>>
  /\ run_email' = "running"
  /\ run_pc' = "email_await"
  /\ UNCHANGED <<run_plan, run_mailbox, run_now, run_bank, run_bank_subs, run_email_subs, run_merged, run_analysis, run_recs, notRunVars>>

SkipEmail ==
  /\ run_pc = "email"
  /\ run_mailbox = <<>>
  /\ run_email' = "skipped"
  /\ run_pc' = "merge"
  /\ UNCHANGED <<run_plan, run_mailbox, run_now, run_bank, run_bank_subs, run_email_subs, run_merged, run_analysis, run_recs, notRunVars>>

\* the awaited email adapter returns its list (it catches every exception)
EmailCompletes ==
  /\ run_pc = "email_await"
  /\ run_email' = "done"
  /\ run_email_subs' = discover_subscriptions_from_email(run_mailbox[1])
  /\ run_pc' = "merge"
  /\ UNCHANGED <<run_plan, run_mailbox, run_now, run_bank, run_bank_subs, run_merged, run_analysis, run_recs, notRunVars>>

\* merged_subscriptions = self._merge_subscription_sources(bank_subscriptions, email_subscriptions)
RunMerge ==
  /\ run_pc = "merge"
  /\ LET r == _merge_subscription_sources(run_bank_subs, run_email_subs)
     IN IF r.raised
        THEN run_pc' = "raised" /\ UNCHANGED run_merged
        ELSE run_pc' = "analyze" /\ run_merged' = r.subs
  /\ UNCHANGED <<run_plan, run_mailbox, run_now, run_bank, run_email, run_bank_subs, run_email_subs, run_analysis, run_recs, notRunVars>>

\* analysis = self._analyze_subscription_patterns(merged_subscriptions)
RunAnalyze ==
  /\ run_pc = "analyze"
  /\ IF AnalysisRaises(run_merged)
     THEN run_pc' = "raised" /\ UNCHANGED run_analysis
     ELSE /\ run_pc' = "recommend"
          /\ run_analysis' = <<_analyze_subscription_patterns(run_merged, run_now)>>
  /\ UNCHANGED <<run_plan, run_mailbox, run_now, run_bank, run_email, run_bank_subs, run_email_subs, run_merged, run_recs, notRunVars>>

\* recommendations = self._generate_recommendations(merged_subscriptions, analysis); return {...}
RunRecommend ==
  /\ run_pc = "recommend"
  /\ IF RecommendRaises(run_analysis[1])
     THEN run_pc' = "raised" /\ UNCHANGED run_recs
     ELSE /\ run_pc' = "returned"
          /\ run_recs' = _generate_recommendations(run_merged, run_analysis[1])
  /\ UNCHANGED <<run_plan, run_mailbox, run_now, run_bank, run_email, run_bank_subs, run_email_subs, run_merged, run_analysis, notRunVars>>

NextRun ==
  StartBank \/ SkipBank \/ BankCompletes \/ StartEmail \/ SkipEmail \/ EmailCompletes
    \/ RunMerge \/ RunAnalyze \/ RunRecommend

SpecRun == InitRun /\ [][NextRun]_vars

(***************************************************************************)
(* Cancellation requests: CancellationRequest (cancellation_request.py)   *)
(* and the routes of cancellations.py acting on one request of the user.  *)
(* Each route is one transaction: it commits its changes or, on an        *)
(* exception, rolls all of them back.                                      *)
(***************************************************************************)
\* a check without the retry limit
can_retry_nolimit(status, retry_count) == status = "failed"

\* return self.status == 'failed' and self.retry_count < 3
can_retry(status, retry_count) == status = "failed" /\ retry_count < 3

\* status column: pending, in_progress, completed, failed
RequestStatuses == {"pending", "in_progress", "completed", "failed"}

\* request_type column: immediate, end_of_cycle, scheduled
RequestTypes == {"immediate", "end_of_cycle"}

\* Subscription.query.get(...): None, or a row for which is_cancellable()
\* is true or false
SubscriptionRows == {"missing", "cancellable", "not_cancellable"}

CancelCalled == [status |-> cancel_status, retry_count |-> cancel_retry_count]

InitCancel ==
  /\ cancel_status \in RequestStatuses
  /\ cancel_retry_count = 0
  /\ cancel_method_used = None
  /\ cancel_request_type \in RequestTypes
  /\ cancel_subscription \in SubscriptionRows
  /\ cancel_subscription_status = IF cancel_subscription = "missing" THEN "none"
                                  ELSE "cancellation_pending"
  /\ cancel_op = "none"
  /\ cancel_response = 0
  /\ cancel_before = [status |-> "none", retry_count |-> 0]
  /\ AllIdleBut("cancel")

\* POST /cancellations/<id>/retry
retry_cancellation ==
  /\ cancel_status # "none"
  /\ cancel_op' = "retry"
  /\ cancel_before' = CancelCalled
  /\ IF ~ can_retry(cancel_status, cancel_retry_count)
     THEN /\ cancel_response' = 400
          /\ UNCHANGED <<cancel_status, cancel_method_used>>
     ELSE /\ cancel_response' = 200
          /\ IF cancel_subscription = "cancellable"
             THEN cancel_status' = "in_progress" /\ cancel_method_used' = "api"
             ELSE cancel_status' = "pending" /\ cancel_method_used' = "manual"
  /\ UNCHANGED <<cancel_retry_count, cancel_request_type, cancel_subscription, cancel_subscription_status, notCancelVars>>

\* POST /cancellations/<id>/complete; without a JSON body data.get raises
\* and the transaction is rolled back
complete_cancellation ==
  /\ cancel_status # "none"
  /\ cancel_op' = "complete"
  /\ cancel_before' = CancelCalled
  /\ \E data \in {"None", "dict"} :
       IF data = "None"
       THEN /\ cancel_response' = 500
            /\ UNCHANGED <<cancel_status, cancel_subscription_status>>
       ELSE /\ cancel_response' = 200
            /\ cancel_status' = "completed"
            /\ cancel_subscription_status' =
                 IF cancel_subscription = "missing" THEN cancel_subscription_status
                 ELSE IF cancel_request_type = "immediate" THEN "cancelled"
                 ELSE "pending_cancellation"
  /\ UNCHANGED <<cancel_retry_count, cancel_method_used, cancel_request_type, cancel_subscription, notCancelVars>>

\* POST /cancellations/simulate-completion: acts on the requests whose
\* status is 'in_progress'; random.random() > 0.2 is either outcome
simulate_completion ==
  /\ cancel_status # "none"
  /\ cancel_op' = "simulate"
  /\ cancel_before' = CancelCalled
  /\ cancel_response' = 200
  /\ IF cancel_status # "in_progress"
     THEN UNCHANGED <<cancel_status, cancel_retry_count, cancel_subscription_status>>
     ELSE \E success \in BOOLEAN :
            IF success
            THEN /\ cancel_status' = "completed"
                 /\ cancel_subscription_status' =
                      IF cancel_subscription = "missing" THEN cancel_subscription_status
                      ELSE "cancelled"
                 /\ UNCHANGED cancel_retry_count
            ELSE /\ cancel_status' = "failed"
                 /\ cancel_retry_count' = cancel_retry_count + 1
                 /\ UNCHANGED cancel_subscription_status
  /\ UNCHANGED <<cancel_method_used, cancel_request_type, cancel_subscription, notCancelVars>>

NextCancel == retry_cancellation \/ complete_cancellation \/ simulate_completion

SpecCancel == InitCancel /\ [][NextCancel]_vars

(***************************************************************************)
(* The whole model: any component, started on any of its inputs.           *)
(***************************************************************************)
Init == InitMerge \/ InitBank \/ InitDuplicate \/ InitPattern \/ InitClassify \/ InitReport \/ InitExtract \/ InitToken \/ InitRun \/ InitCancel

Next == NextMerge \/ NextBank \/ NextDuplicate \/ NextPattern \/ NextClassify \/ NextReport \/ NextExtract \/ NextToken \/ NextRun \/ NextCancel

Spec == Init /\ [][Next]_vars

(***************************************************************************)
(* Properties of the merge engine (SpecMerge).                             *)
(***************************************************************************)
Count(s, x) == Cardinality({i \in 1..Len(s) : s[i] = x})

\* the same entries, up to list ordering
SameEntries(s, t) ==
  /\ Len(s) = Len(t)
  /\ \A x \in SeqRange(s) \cup SeqRange(t) : Count(s, x) = Count(t, x)

MergeReturned == merge_pc \in {"sources", "detected"} /\ ~merge_raised

\* C1: for a bank candidate b and an email candidate e that are duplicates of
\* each other, Merge([b],[e]) returns exactly one entry, with detection_source
\* 'both', b's amount and confidence min(max(b.conf, e.conf) + 0.1, 1.0).
C1_DuplicatePairMergesToBoth ==
  ( /\ merge_pc \in {"sources", "detected"}
    /\ Len(bank_subs) = 1 /\ Len(email_subs) = 1
    /\ _are_subscriptions_duplicate(bank_subs[1], email_subs[1]) )
  => /\ ~merge_raised
     /\ Len(merged) = 1
     /\ merged[1].detection_source = "both"
     /\ merged[1].amount = bank_subs[1].amount
     /\ merged[1].confidence_score =
          Min({Max({bank_subs[1].confidence_score, email_subs[1].confidence_score}) + 100, 1000})

\* C2: every 'both' entry of the Merge output was produced by merging exactly
\* one bank-origin candidate with one email-origin candidate: an email
\* candidate is merged only into an entry that came from the bank list, and
\* no entry receives two email candidates.
C2_BothHasOneBankOneEmail ==
  (merge_pc = "sources" /\ ~merge_raised)
  => \A j \in 1..Len(merge_hit) :
       merge_hit[j] # 0
       => /\ merge_hit[j] <= Len(bank_subs)
          /\ \A k \in 1..Len(merge_hit) : k # j => merge_hit[k] # merge_hit[j]

\* C3: the list returned by Merge is deduplicated: no two distinct entries of
\* the output are duplicates of each other.
C3_OutputDeduplicated ==
  MergeReturned
  => \A i, j \in 1..Len(merged) :
       i < j => ~_are_subscriptions_duplicate(merged[i], merged[j])

\* C4: Merge is idempotent: Merge(Merge(A,B), []) has the same entries as
\* Merge(A,B), up to list ordering.
C4_MergeIdempotent ==
  merge_pc \in {"sources2", "detected2"} => SameEntries(remerged, merged)

C4_Witness ==
  /\ merge_pc = "sources2"
  /\ Len(merged) >= 2
  /\ \E i \in 1..Len(merged) : merged[i].detection_source = "both"
  /\ \E i, j \in 1..Len(merged) :
       i < j /\ _are_subscriptions_duplicate(merged[i], merged[j])

\* C5: the duplicate test is symmetric: are_duplicate(a,b) = are_duplicate(b,a)
\* for all candidates a and b.
C5_DuplicateSymmetric ==
  dup_pc = "backward" => are_duplicate[1] = are_duplicate[2]

\* both calls made on a pair that is a duplicate only because the first name
\* is contained in the second: the names differ, the second is not contained
\* in the first, no alias applies and the amounts are more than $1 apart
C5_Witness ==
  /\ dup_pc = "backward"
  /\ are_duplicate = <<TRUE, TRUE>>
  /\ LET name1 == Strip(Lower(dup_sub1.merchant_name))
         name2 == Strip(Lower(dup_sub2.merchant_name))
     IN /\ Contains(name1, name2) /\ ~Contains(name2, name1)
        /\ Abs(dup_sub1.amount - dup_sub2.amount) > 100
        /\ ~\E k \in 1..Len(variations) : NameHasVariation(variations[k], name1)

\* C6: the list returned by Merge is sorted by (confidence_score, amount)
\* descending.
C6_OutputSorted ==
  MergeReturned
  => \A i \in 1..(Len(merged) - 1) :
       \/ merged[i].confidence_score > merged[i + 1].confidence_score
       \/ /\ merged[i].confidence_score = merged[i + 1].confidence_score
          /\ merged[i].amount >= merged[i + 1].amount

\* _merge_subscription_sources: the indexes of `merged` that received an
\* email candidate, and the index at which the j-th email candidate was appended
HitIndexes == {merge_hit[j] : j \in 1..Len(merge_hit)} \ {0}
AppendedAt(j) == Len(bank_subs) + Cardinality({k \in 1..j : merge_hit[k] = 0})

\* candidates (by position) for which the merge that ran found no duplicate
UntouchedBank ==
  IF merge_pc = "sources"
  THEN {i \in 1..Len(bank_subs) : i \notin HitIndexes}
  ELSE {i \in 1..Len(bank_subs) :
          \A j \in 1..Len(email_subs) :
            Lower(email_subs[j].merchant_name) # Lower(bank_subs[i].merchant_name)}

UntouchedEmail ==
  IF merge_pc = "sources"
  THEN {j \in 1..Len(email_subs) : merge_hit[j] = 0 /\ AppendedAt(j) \notin HitIndexes}
  ELSE {j \in 1..Len(email_subs) :
          \A i \in 1..Len(bank_subs) :
            Lower(email_subs[j].merchant_name) # Lower(bank_subs[i].merchant_name)}

BankCandidates == SeqRange(tx_subs) \cup SeqRange(stream_sub)

\* C8: every DetectedSubscription produced by an adapter has a
\* confidence_score within [0.0, 1.0], including the bank candidates built
\* from a detected transaction pattern.
C8_ConfidenceInUnitInterval ==
  \A s \in BankCandidates : 0 <= s.confidence_score /\ s.confidence_score <= 1000

\* C9: every DetectedSubscription produced by the bank adapter has amount > 0;
\* an input whose amount is zero never yields a candidate.
C9_AmountPositive ==
  \A s \in BankCandidates : s.amount > 0

\* the date-sorted group of a merchant key
SortedGroup(merchant) == SortByDate(MerchantGroup(transactions, merchant))

\* distinct(amounts) / count(amounts) > 0.3
VarianceAbove(group) ==
  10 * Cardinality({group[i].amount : i \in 1..Len(group)}) > 3 * Len(group)

\* C10: for every date-sorted group of at least 2 transactions whose
\* distinct(amounts)/count(amounts) exceeds 0.3 the pattern detector emits no
\* pattern, whatever the intervals, and the merchant yields no recurring entry.
C10_VarianceRejects ==
  bank_pc \in {"analyzed", "created"}
  => \A merchant \in SeqRange(MerchantKeys(transactions)) :
       (Len(SortedGroup(merchant)) >= 2 /\ VarianceAbove(SortedGroup(merchant)))
       => /\ _detect_recurring_pattern(SortedGroup(merchant)) = <<>>
          /\ \A i \in 1..Len(recurring) : recurring[i].merchant_name # merchant

\* a group of classified merchant with too many distinct amounts whose
\* intervals alone would give a billing cycle
C10_Witness ==
  /\ bank_pc = "analyzed"
  /\ \E merchant \in SeqRange(MerchantKeys(transactions)) :
       /\ Len(SortedGroup(merchant)) >= 3
       /\ VarianceAbove(SortedGroup(merchant))
       /\ Cardinality({SortedGroup(merchant)[i].amount : i \in 1..Len(SortedGroup(merchant))}) = 1
       /\ PatternOfIntervals(SortedGroup(merchant)) # <<>>
       /\ _classify_merchant(merchant)[2] > 700

(***************************************************************************)
(* Properties of the pattern detector (SpecPattern).                       *)
(***************************************************************************)
\* the sum and the number of the consecutive-day intervals of pattern_txs
IntervalSum == pattern_txs[Len(pattern_txs)].date - pattern_txs[1].date
IntervalCount == Len(pattern_txs) - 1

\* lo <= average interval <= hi
AverageWithin(lo, hi) ==
  lo * IntervalCount <= IntervalSum /\ IntervalSum <= hi * IntervalCount

DetectedCycle == IF pattern_out = <<>> THEN "none" ELSE pattern_out[1].billing_cycle

\* C11: for every group that passes the amount check the billing cycle is
\* the one of the inclusive range the average interval lies in (25..35
\* monthly, 85..95 quarterly, 350..375 annual, 6..8 weekly), and a group whose
\* average lies in none of the ranges is rejected.
C11_CycleFromAverageInterval ==
  (pattern_pc = "detected" /\ Len(pattern_txs) >= 2 /\ ~VarianceAbove(pattern_txs))
  => /\ AverageWithin(25, 35) => DetectedCycle = "monthly"
     /\ AverageWithin(85, 95) => DetectedCycle = "quarterly"
     /\ AverageWithin(350, 375) => DetectedCycle = "annual"
     /\ AverageWithin(6, 8) => DetectedCycle = "weekly"
     /\ ~(AverageWithin(25, 35) \/ AverageWithin(85, 95)
           \/ AverageWithin(350, 375) \/ AverageWithin(6, 8))
        => pattern_out = <<>>

\* a group that passed the amount check, with an average interval of exactly
\* 375 days made of unequal intervals, detected as annual
C11_Witness ==
  /\ pattern_pc = "detected"
  /\ ~VarianceAbove(pattern_txs)
  /\ IntervalSum = 375 * IntervalCount
  /\ pattern_txs[2].date - pattern_txs[1].date # 375
  /\ DetectedCycle = "annual"

(***************************************************************************)
(* Properties of the merchant classifier (SpecClassify).                   *)
(***************************************************************************)
\* the taxonomy rules with a pattern found in the lower-cased name
MatchingRules(name) ==
  {k \in 1..Len(subscription_patterns) : RuleMatches(subscription_patterns[k], Lower(name))}

\* C12: a name matching a taxonomy rule is classified as that rule's
\* spending category with confidence 0.9; "Netflix Inc" and "netflix.com"
\* are classified as 'entertainment' with confidence 0.9.
C12_ClassifiedAsRuleCategory ==
  (classify_pc = "classified" /\ MatchingRules(classify_name) # {})
  => \E k \in MatchingRules(classify_name) :
       classify_out = <<subscription_patterns[k].category, 900>>

(***************************************************************************)
(* Properties of analytics and recommendations (SpecReport).               *)
(***************************************************************************)
AnalysisReturned == report_pc \in {"analyzed", "recommended", "recommend_raised"}

\* the monthly equivalent in 1/300 cent: monthly x1, annual /12, weekly x4.33,
\* quarterly /3
MonthlyEquivalent(sub) ==
  CASE sub.billing_cycle = "monthly" -> 300 * sub.amount
    [] sub.billing_cycle = "annual" -> (300 * sub.amount) \div 12
    [] sub.billing_cycle = "weekly" -> 3 * 433 * sub.amount
    [] sub.billing_cycle = "quarterly" -> (300 * sub.amount) \div 3

\* the annual equivalent in cents: monthly x12, annual x1, weekly x52, quarterly x4
AnnualEquivalent(sub) ==
  CASE sub.billing_cycle = "monthly" -> 12 * sub.amount
    [] sub.billing_cycle = "annual" -> sub.amount
    [] sub.billing_cycle = "weekly" -> 52 * sub.amount
    [] sub.billing_cycle = "quarterly" -> 4 * sub.amount

HasMultiplier(sub) == sub.billing_cycle \in {"monthly", "annual", "weekly", "quarterly"}

ReportAmounts == [i \in 1..Len(report_subs) |-> report_subs[i].amount]

DuplicateServicesOf(category) ==
  {i \in 1..Len(report_recs) :
     /\ report_recs[i].type = "duplicate_services"
     /\ report_recs[i].title = <<"Multiple", category, "Services">>}

\* C15: for every analytics result the recommendations hold exactly one
\* 'duplicate_services' entry, of priority 'medium' and with potential_savings
\* of 50% of the category's monthly cost, for each category with more than 2
\* subscriptions, and none for a category with 2 or fewer.
C15_OneDuplicateServicesPerCrowdedCategory ==
  report_pc = "recommended"
  => LET breakdown == report_analysis[1].category_breakdown
     IN /\ \A k \in 1..Len(breakdown) :
             IF breakdown[k].count > 2
             THEN /\ Cardinality(DuplicateServicesOf(breakdown[k].category)) = 1
                  /\ \A i \in DuplicateServicesOf(breakdown[k].category) :
                       /\ report_recs[i].priority = "medium"
                       \* half the cost: n/600 cent of savings for n/300 cent
                       /\ report_recs[i].potential_savings = breakdown[k].monthly_cost
             ELSE DuplicateServicesOf(breakdown[k].category) = {}
        /\ Cardinality({i \in 1..Len(report_recs) : report_recs[i].type = "duplicate_services"})
             = Cardinality({k \in 1..Len(breakdown) : breakdown[k].count > 2})

\* recommendations for a list with exactly 3 subscriptions in one category
\* and another category besides
C15_Witness ==
  /\ report_pc = "recommended"
  /\ \E k, m \in 1..Len(report_analysis[1].category_breakdown) :
       /\ report_analysis[1].category_breakdown[k].count = 3
       /\ report_analysis[1].category_breakdown[m].count = 1
       /\ DuplicateServicesOf(report_analysis[1].category_breakdown[k].category) # {}

(***************************************************************************)
(* Properties of the email signal extractor (SpecExtract).                 *)
(***************************************************************************)
\* the values the currency patterns extract from the message: per pattern the
\* first number it finds, in cents
ExtractedAmounts ==
  LET text == FullText(extract_msg.subject, extract_msg.sender, extract_msg.body)
  IN {ParseFloat(SelectSeq(text, LAMBDA token : PatternFinds(amount_patterns[k], token))[1].text) :
        k \in {j \in 1..Len(amount_patterns) :
                 \E t \in 1..Len(text) : PatternFinds(amount_patterns[j], text[t])}}

\* C14: when the amount extracted from an email lies outside [0.99, 999.99]
\* (as $1500.00 does), the amount extractor returns no amount and the message
\* yields no candidate.
C14_OutOfBandAmountYieldsNoCandidate ==
  (/\ extract_pc = "analyzed"
   /\ ExtractedAmounts # {}
   /\ \A cents \in ExtractedAmounts : cents < 99 \/ cents > 99999)
  => /\ _extract_amount_from_text(
          FullText(extract_msg.subject, extract_msg.sender, extract_msg.body)) = <<>>
     /\ extract_info = <<>>
     /\ extract_sub = <<>>

\* a message analyzed whose sender names a merchant and whose only amount is
\* $1500.00
C14_Witness ==
  /\ extract_pc = "analyzed"
  /\ _extract_merchant_from_sender(extract_msg.sender) # <<>>
  /\ ExtractedAmounts = {150000}
  /\ extract_sub = <<>>

(***************************************************************************)
(* Properties of the bank adapter's token loop (SpecToken).                *)
(***************************************************************************)
\* the candidates of the tokens of the plan that did not fail
RECURSIVE CandidatesOfPlan(_)
CandidatesOfPlan(plan) ==
  IF plan = <<>> THEN <<>>
  ELSE (IF Head(plan).kind = "response" THEN SubscriptionsOfStreams(Head(plan).streams) ELSE <<>>)
         \o CandidatesOfPlan(Tail(plan))

\* C16: in the bank adapter a failure on one access token (any collaborator
\* error, an API error with an unparseable body included) never aborts the
\* run: the adapter returns, and it returns the candidates of every other
\* token.
C16_TokenFailureNeverAborts ==
  /\ token_pc # "raised"
  /\ (token_pc = "returned" /\ plaid_client) => token_detected = CandidatesOfPlan(token_plan)

(***************************************************************************)
(* Properties of the discovery run (SpecRun).                              *)
(***************************************************************************)
\* the Plaid collaborator failed for some access token of the run
BankCollaboratorFailed ==
  \E i \in 1..Len(run_plan) : run_plan[i].kind # "response"

\* the Gmail collaborator failed: at build(), in a search, or fetching a message
EmailCollaboratorFailed ==
  /\ run_mailbox # <<>>
  /\ \/ run_mailbox[1].build # "ok"
     \/ \E q \in 1..Len(run_mailbox[1].results) : ~run_mailbox[1].results[q].ok
     \/ \E id \in DOMAIN run_mailbox[1].fetched : run_mailbox[1].fetched[id] = <<>>

\* C17: when the bank or the email collaborator fails during a run, the run
\* does not end in an error: it goes on with an empty contribution of that
\* source through merge, analytics and recommendations.
C17_SourceFailureNeverEndsRun ==
  (BankCollaboratorFailed \/ EmailCollaboratorFailed) => run_pc # "raised"

\* C19: with both sources enabled the two adapters run as parallel tasks: the
\* email adapter can start while the bank adapter is still running, and the
\* merge starts only when each adapter has completed or failed.
C19_AdaptersRunConcurrently ==
  /\ (run_bank = "running" /\ run_email = "pending" /\ run_mailbox # <<>>)
       => ENABLED StartEmail
  /\ run_pc \in {"merge", "analyze", "recommend", "returned"}
       => run_bank \in {"skipped", "done", "failed"} /\ run_email \in {"skipped", "done"}

(***************************************************************************)
(* Malformed records (SpecBank).                                           *)
(***************************************************************************)
WellFormed(transaction) == transaction.missing = "none"

\* C18: a transaction that lacks date, transaction_id or account_id is
\* skipped and is not fatal: the analysis returns, and it returns what the
\* well-formed transactions of the batch give.
C18_MalformedTransactionSkipped ==
  /\ bank_pc # "analysis_raised"
  /\ bank_pc = "analyzed"
       => recurring = _analyze_recurring_transactions(SelectSeq(transactions, WellFormed))

(***************************************************************************)
(* The bank candidate's price and cadence in the merged list (SpecMerge).  *)
(***************************************************************************)
\* C20: every entry of the merged list to which a bank candidate contributed
\* carries that candidate's amount and billing_cycle, also after a second
\* email candidate was merged into it: so every bank candidate's amount and
\* billing_cycle are found together on an entry of the list returned.
C20_BankAmountAndCycleKept ==
  (merge_pc = "sources" /\ ~merge_raised)
    => \A i \in 1..Len(bank_subs) : \E j \in 1..Len(merged) :
         /\ merged[j].amount = bank_subs[i].amount
         /\ merged[j].billing_cycle = bank_subs[i].billing_cycle

(***************************************************************************)
(* The three tiers of the classifier (SpecClassify).                       *)
(***************************************************************************)
HasIndicator(name) ==
  \E k \in 1..Len(subscription_indicators) : Contains(subscription_indicators[k], Lower(name))

\* C21: the classifier is a three-tier function of the name: the earliest
\* matching table entry with confidence 0.9 when a pattern matches
\* (whatever the letter case, and whether or not an indicator token is in
\* the name), else ('unknown', 0.6) when the name holds an indicator token,
\* else ('unknown', 0.3).
C21_ThreeTierClassifier ==
  classify_pc = "classified"
  => IF MatchingRules(classify_name) # {}
     THEN \E k \in MatchingRules(classify_name) :
            /\ \A j \in MatchingRules(classify_name) : k <= j
            /\ classify_out = <<subscription_patterns[k].key, 900>>
     ELSE IF HasIndicator(classify_name)
          THEN classify_out = <<"unknown", 600>>
          ELSE classify_out = <<"unknown", 300>>

\* a name in capitals matching two table entries and holding an indicator
\* token has been classified
C21_Witness ==
  /\ classify_pc = "classified"
  /\ Cardinality(MatchingRules(classify_name)) >= 2
  /\ HasIndicator(classify_name)
  /\ classify_name # Lower(classify_name)

(***************************************************************************)
(* The acceptance threshold, the debit filter and the grouping key         *)
(* (SpecBank).                                                             *)
(***************************************************************************)
\* C22: a merchant group with a detected pattern gives a recurring entry,
\* and then a candidate, only if its classifier confidence is strictly
\* greater than 0.7: every entry has a confidence above 0.7, and a merchant
\* classified at 0.6 or 0.3 has no entry and no candidate.
C22_OnlyAboveThresholdBecomeCandidates ==
  bank_pc \in {"analyzed", "created"}
  => /\ \A i \in 1..Len(recurring) : recurring[i].confidence > 700
     /\ \A merchant \in SeqRange(MerchantKeys(transactions)) :
          _classify_merchant(merchant)[2] \in {600, 300}
          => /\ \A i \in 1..Len(recurring) : recurring[i].merchant_name # merchant
             /\ \A i \in 1..Len(tx_subs) : tx_subs[i].merchant_name # Title(merchant)
     /\ bank_pc = "created" => Len(tx_subs) = Len(recurring)

\* the candidates have been built for a batch in which a merchant
\* classified at 0.6 has a detected pattern
C22_Witness ==
  /\ bank_pc = "created"
  /\ \E merchant \in SeqRange(MerchantKeys(transactions)) :
       /\ _classify_merchant(merchant)[2] = 600
       /\ _detect_recurring_pattern(SortedGroup(merchant)) # <<>>
       /\ \A i \in 1..Len(tx_subs) : tx_subs[i].merchant_name # Title(merchant)

\* a credit: a transaction with a positive amount
IsCredit(transaction) == transaction.amount > 0
NotCredit(transaction) == ~IsCredit(transaction)

\* C23: only debits are considered: a credit enters no merchant group and
\* has no influence on the patterns, so the analysis returns what it returns
\* for the batch without its credits.
C23_CreditsNeverConsidered ==
  bank_pc = "analyzed"
  => /\ recurring = _analyze_recurring_transactions(SelectSeq(transactions, NotCredit))
     /\ \A i \in 1..Len(recurring) : \A j \in 1..Len(recurring[i].transactions) :
          \A t \in 1..Len(transactions) :
            transactions[t].transaction_id = recurring[i].transactions[j].transaction_id
            => ~IsCredit(transactions[t])

\* the grouping key the claim gives: lower-cased and trimmed
NormalizedName(transaction) == Strip(Lower(transaction.merchant_name))

\* C24: transactions are grouped by the lower-cased and trimmed merchant
\* name: two transactions whose names differ only in letter case or in
\* leading or trailing whitespace are in the same group.
C24_GroupedByNormalizedName ==
  bank_pc = "analyzed"
  => \A i \in 1..Len(transactions) : \A j \in 1..Len(transactions) :
       (NormalizedName(transactions[i]) # <<>>
          /\ NormalizedName(transactions[i]) = NormalizedName(transactions[j]))
       => GroupKey(transactions[i]) = GroupKey(transactions[j])

(***************************************************************************)
(* The first match inside the band (SpecExtract).                          *)
(***************************************************************************)
\* the values of all matches, pattern after pattern and, for one pattern,
\* in reading order
RECURSIVE MatchesFrom(_, _)
MatchesFrom(text, k) ==
  IF k > Len(amount_patterns) THEN <<>>
  ELSE LET found == SelectSeq(text, LAMBDA token : PatternFinds(amount_patterns[k], token))
       IN [i \in 1..Len(found) |-> ParseFloat(found[i].text)] \o MatchesFrom(text, k + 1)

InBandPrice(cents) == 99 <= cents /\ cents <= 99999

MessageText == FullText(extract_msg.subject, extract_msg.sender, extract_msg.body)

MerchantFound ==
  \/ _extract_merchant_from_sender(extract_msg.sender) # <<>>
  \/ _extract_merchant_from_subject(extract_msg.subject) # <<>>

\* C25: the amount extractor returns the first match, over the ordered
\* patterns, whose value lies in [0.99, 999.99]: when some match lies in the
\* band an amount is returned, that of the first such match, also when an
\* earlier match lies outside the band.
C25_FirstInBandMatchReturned ==
  (/\ extract_pc = "analyzed"
   /\ MerchantFound
   /\ SelectSeq(MatchesFrom(MessageText, 1), InBandPrice) # <<>>)
  => /\ extract_info # <<>>
     /\ extract_info[1].amount = SelectSeq(MatchesFrom(MessageText, 1), InBandPrice)[1]

(***************************************************************************)
(* Order of the recommendation list (SpecReport).                          *)
(***************************************************************************)
\* the categories of the duplicate_services recommendations, as listed
DuplicateCategories(recs) ==
  LET dups == SelectSeq(recs, LAMBDA r : r.type = "duplicate_services")
  IN [i \in 1..Len(dups) |-> dups[i].title[2]]

\* the categories holding more than two subscriptions, in the order of
\* category_breakdown
CrowdedCategories(category_breakdown) ==
  LET crowded == SelectSeq(category_breakdown, LAMBDA data : data.count > 2)
  IN [i \in 1..Len(crowded) |-> crowded[i].category]

\* C26: the recommendation list has every 'high' before every 'medium' before
\* every 'low', and recommendations of equal priority stay in the order the
\* rules emitted them: high_spending before unused_trials, duplicate_services
\* in the iteration order of the categories.
C26_SortedByPriorityStable ==
  report_pc = "recommended"
  => /\ \A i \in 1..Len(report_recs) : \A j \in 1..Len(report_recs) :
          i < j => /\ priority_order(report_recs[i].priority)
                        >= priority_order(report_recs[j].priority)
                   /\ ~ (report_recs[i].type = "unused_trials"
                           /\ report_recs[j].type = "high_spending")
     /\ DuplicateCategories(report_recs)
          = CrowdedCategories(report_analysis[1].category_breakdown)

\* high_spending, unused_trials, two duplicate_services and annual_billing
\* in one list, the category met first being 'unknown'
C26_Witness ==
  /\ report_pc = "recommended"
  /\ Len(report_recs) = 5
  /\ report_recs[1].type = "high_spending"
  /\ report_recs[2].type = "unused_trials"
  /\ DuplicateCategories(report_recs) = <<"unknown", "streaming">>
  /\ report_recs[5].type = "annual_billing"

(***************************************************************************)
(* The high_spending rule (SpecReport).                                    *)
(***************************************************************************)
RecommendationsCalled == report_pc \in {"recommended", "recommend_raised"}

HighSpending(recs) == SelectSeq(recs, LAMBDA r : r.type = "high_spending")

\* total_monthly > 100 gives exactly one high_spending item, priority high,
\* potential_savings a fifth of total_monthly; otherwise none
HighSpendingRule(recs, total_monthly) ==
  IF total_monthly > 10000
  THEN /\ Len(HighSpending(recs)) = 1
       /\ HighSpending(recs)[1].priority = "high"
       /\ 5 * HighSpending(recs)[1].potential_savings = 600 * total_monthly
  ELSE HighSpending(recs) = <<>>

\* C27: a high_spending recommendation (priority high, potential_savings 20%
\* of total_monthly) is in the list returned exactly when total_monthly is
\* more than 100; at exactly 100 or below, and for an empty subscription
\* list, the list returned holds none.
C27_HighSpendingIffAboveHundred ==
  RecommendationsCalled
  => /\ report_pc = "recommended"
     /\ HighSpendingRule(report_recs, report_analysis[1].total_monthly)

(***************************************************************************)
(* The total and the categories (SpecReport).                              *)
(***************************************************************************)
\* the sum of the monthly_cost of all categories, in 1/300 cent
CategoryCostSum(category_breakdown) ==
  SumSeq([i \in 1..Len(category_breakdown) |-> category_breakdown[i].monthly_cost])

\* C28: for every list of subscriptions, on every billing cycle a
\* DetectedSubscription can carry ('biweekly' among them), total_monthly
\* equals the sum of the monthly_cost of all categories of category_breakdown,
\* up to the rounding of total_monthly to the cent.
C28_TotalIsSumOfCategoryCosts ==
  AnalysisReturned
  => 2 * Abs(300 * report_analysis[1].total_monthly
               - CategoryCostSum(report_analysis[1].category_breakdown)) <= 300

(***************************************************************************)
(* Conservation of candidates (SpecMerge).                                 *)
(***************************************************************************)
\* the fate the claim gives every email candidate from the j-th on, `list`
\* being the entries so far: merged into the first entry it is a duplicate
\* of (hit: the index of that entry), or appended when there is none (hit: 0)
RECURSIVE FatesFrom(_, _)
FatesFrom(list, j) ==
  IF j > Len(email_subs) THEN [hit |-> <<>>, list |-> list]
  ELSE LET dups == {i \in 1..Len(list) :
                      _are_subscriptions_duplicate(list[i], email_subs[j])}
           next == IF dups = {} THEN Append(list, email_subs[j])
                   ELSE [list EXCEPT ![Min(dups)] =
                                       _merge_duplicate_subscriptions(@, email_subs[j])]
           rest == FatesFrom(next, j + 1)
       IN [hit |-> <<IF dups = {} THEN 0 ELSE Min(dups)>> \o rest.hit,
           list |-> rest.list]

MergedEmails == {j \in 1..Len(merge_hit) : merge_hit[j] # 0}
AppendedEmails == {j \in 1..Len(merge_hit) : merge_hit[j] = 0}

RetryAccepted == cancel_op = "retry" /\ cancel_response = 200

\* C30: for a cancellation request that starts with retry_count 0, after any
\* sequence of retry, simulate-completion (success or failure) and complete
\* calls: retry_count is at most 3, a retry is accepted only when the status
\* was 'failed' and retry_count below 3, and a call made on a 'completed'
\* request leaves it 'completed'.
C30_RetryLimitAndCompletedFinal ==
  /\ cancel_retry_count <= 3
  /\ RetryAccepted
       => cancel_before.status = "failed" /\ cancel_before.retry_count < 3
  /\ (cancel_op # "none" /\ cancel_before.status = "completed")
       => cancel_status = "completed"

\* the fourth retry, refused: three failures behind and status 'failed'
C30_Witness ==
  /\ cancel_op = "retry"
  /\ cancel_response = 400
  /\ cancel_status = "failed"
  /\ cancel_retry_count = 3
====
